---- MODULE Spec2Model ----
(***************************************************************************)
(* Telegram subscription bot: the dual-rail payment session manager        *)
(* (services/payment_processor.py), the card gateway client                *)
(* (services/airwallex_payment.py), the webhook receiver                   *)
(* (services/webhook_handler.py), the subscription store                   *)
(* (database/supabase_client.py) and the lifecycle scheduler               *)
(* (services/subscription_manager.py).                                     *)
(*                                                                         *)
(* Time is the wall clock in seconds (datetime.now()); a date is the day   *)
(* number of a time.  Python None is one sentinel per type, because the    *)
(* values of one field must be comparable.                                 *)
(***************************************************************************)
EXTENDS Integers, Sequences, FiniteSets, TLC

\* ---------------------------------------------------------------- bounds
StartDay == 20          \* the day on which the process starts
MaxDays == 2            \* whole days the clock may advance
MaxSecs == 1            \* single seconds the clock may advance within a day
MaxSessions == 1        \* session ids handed out
MaxAttempts == 2        \* rail attempts on one session
MaxLinks == 2           \* payment links the gateway hands out
MaxRevenue == 2         \* payments counted per rail
MaxInFlight == 2        \* coroutines suspended in a gateway call
MaxDeliveries == 2      \* webhook requests answered
MaxLog == 2             \* rows of the activity log
MaxCancels == 1         \* cancellation requests sent for one link
MaxExpiryDays == 40
MaxExtendDays == 12     \* how far ahead of the start an expiry may be extended
MaxSwept == 2           \* session ids handed out beside a running sweep
RepricedDays == 14      \* the duration an edited plan is given
MaxWarnings == 1        \* start_automation calls refused

\* ------------------------------------------------------ program constants
DAY == 24 * 3600
SessionTTL == 24 * 3600                 \* timedelta(hours=24)
TOLERANCE_SECONDS == 300                \* tolerance_seconds=300
max_retries == 3                        \* self.max_retries = 3
ProcessedCap == 10000                   \* len(self.processed_webhooks) > 10000
ProcessedKeep == 5000                   \* [-5000:]
CentsPerStar == 2                       \* 1 Star = $0.02

Users == {1, 2}
PlanIds == {"basic", "standard"}
subscription_plans ==
    [p \in PlanIds |->
        IF p = "basic" THEN [stars |-> 50, days |-> 7]
                       ELSE [stars |-> 100, days |-> 30]]

\* Python None, one per type
NoDate == 0 - 1
NoLink == 0
NoTime == 0 - 1
NoMethod == "none"
NoTxn == "none"
NoSession == <<0, 0>>
NoUser == 0
NoStatus == "none"

LinkIds == 1..MaxLinks
TxnIds == {"tx1"}
Methods == {"card", "stars"}
Terminal == {"completed", "failed", "cancelled", "expired"}

EventIds == {"evt1", "evt2"}
NoEventId == "none"
BadTid == 0 - 1         \* a telegram_id that is not a number

VARIABLES
    now,                \* datetime.now(), seconds
    airwallex,          \* PaymentProcessor.airwallex: "service" or "none"
    credentials_ok,     \* whether the gateway accepts the client credentials
    payment_sessions,   \* PaymentProcessor.payment_sessions
    payment_history,    \* PaymentProcessor.payment_history
    revenue_stats,      \* PaymentProcessor.revenue_stats
    link_status,        \* the gateway's own state of each payment link
    cancel_calls,       \* cancel_payment_link requests sent, per link
    inflight,           \* coroutines suspended in get_payment_link_status
    result,             \* what the last finished call returned
    user_subscriptions, \* handlers.commands.user_subscriptions
    pending_payments,   \* handlers.payments.pending_payments
    invites,            \* add_user_to_group calls, per user
    webhook_secret,     \* AIRWALLEX_WEBHOOK_SECRET is set
    processed_webhooks, \* AirwallexWebhookHandler.processed_webhooks, its ids of EventIds
    processed_others,   \* how many other ids processed_webhooks holds
    dispatched,         \* process_webhook_event invocations, per event id
    deliveries,         \* the webhook requests answered so far
    verified,           \* the last direct call of verify_webhook_signature
    is_running,         \* SubscriptionManager.is_running
    automation_task,    \* where SubscriptionManager.automation_task stands
    cancelling,         \* automation_task.cancel() was called and not yet delivered
    stopper,            \* where the caller of stop_automation stands
    cancelled_at,       \* where the task stood at the last automation_task.cancel()
    daily_runs,         \* run_daily_tasks calls begun
    loop_errors,        \* "Error in automation loop" lines logged
    already_running,    \* "Automation already running" lines logged
    users,              \* table users of the Subscription Store
    activity_log,       \* table activity_log of the Subscription Store
    expired_users,      \* the rows a running process_expired_subscriptions holds
    sweep,              \* where a running cleanup_expired_sessions stands
    plan_objects        \* the dictionaries of config["subscription_plans"]

procvars == <<airwallex, credentials_ok, payment_sessions, payment_history,
              revenue_stats, link_status, cancel_calls, inflight, result>>
botvars == <<user_subscriptions, pending_payments, invites>>
hookvars == <<webhook_secret, processed_webhooks, processed_others, dispatched,
              deliveries, verified>>
schedvars == <<is_running, automation_task, cancelling, stopper, cancelled_at,
               daily_runs, loop_errors, already_running>>
storevars == <<users, activity_log>>
stepvars == <<expired_users, sweep, plan_objects>>
vars == <<now, procvars, botvars, hookvars, schedvars, storevars, stepvars>>

Today == now \div DAY

Put(f, k, v) == [x \in (DOMAIN f) \cup {k} |-> IF x = k THEN v ELSE f[x]]
Drop(f, k) == [x \in (DOMAIN f) \ {k} |-> f[x]]

NoResult ==
    [op |-> "none", sid |-> NoSession, ok |-> FALSE, error |-> "none",
     fallback_available |-> FALSE, fallback_method |-> NoMethod,
     payment_method |-> NoMethod, remote_paid |-> FALSE,
     user_id |-> NoUser, expires_at |-> NoTime, processed |-> 0,
     unevicted |-> {}, reminded |-> <<>>, queried |-> {}, evicted |-> {},
     attempts |-> 0, network |-> <<>>]

\* no direct call of verify_webhook_signature yet
NoVerify ==
    [style |-> "none", body |-> "none", timestamp |-> NoTime,
     signature |-> "none", outcome |-> "none"]

NoEvent ==
    [id |-> NoEventId, name |-> "none", telegram_id |-> NoUser,
     payment_link_id |-> NoLink, amount_ok |-> TRUE]

\* session["plan_details"]: the dictionary the caller passed in, which is the
\* plan's dictionary in config["subscription_plans"], not a copy of it
PlanDetails(session) == plan_objects[session.plan_id]

\* the session ids a caller may pass: the live ones and the archived ones,
\* which the session table no longer knows
KnownSessionIds == (DOMAIN payment_sessions) \cup (DOMAIN payment_history)
SessionIdArgs == KnownSessionIds

\* =========================================================== Payment Gateway
\* AirwallexPaymentService.authenticate: the credentials decide
Authenticate == credentials_ok

NextLink == Cardinality(DOMAIN link_status) + 1

\* AirwallexPaymentService.create_payment_link; net is what the network did
CreatePaymentLink(net) ==
    IF ~Authenticate THEN [ok |-> FALSE, id |-> NoLink]
    ELSE IF net = "created" THEN [ok |-> TRUE, id |-> NextLink]
    ELSE [ok |-> FALSE, id |-> NoLink]

\* AirwallexPaymentService.get_payment_link_status
GetPaymentLinkStatus(link, net_ok) ==
    IF ~Authenticate THEN [ok |-> FALSE, status |-> "none"]
    ELSE IF net_ok /\ link \in DOMAIN link_status
         THEN [ok |-> TRUE, status |-> link_status[link]]
         ELSE [ok |-> FALSE, status |-> "none"]

\* AirwallexPaymentService.cancel_payment_link: the gateway's state after the
\* PATCH status=INACTIVE of the links in `links`, of which those in `reached`
\* got through
LinksAfterCancel(links, reached) ==
    [l \in DOMAIN link_status |->
        IF l \in links /\ l \in reached /\ Authenticate /\ link_status[l] = "ACTIVE"
        THEN "INACTIVE" ELSE link_status[l]]

CancelCallsAfter(links) ==
    [l \in LinkIds |-> IF l \in links THEN cancel_calls[l] + 1 ELSE cancel_calls[l]]

\* ---- the gateway calls request by request. What the network does to one
\* HTTP request: a 2xx answer, a 401, another HTTP status, or
\* aiohttp.ClientError
NetworkOutcomes == {"ok", "unauthorized", "http_error", "client_error"}

\* create_payment_link lines 177-218 from loop index `attempt` on: `net` is
\* what the network does to the first, second and third request
RECURSIVE PostLink(_, _)
PostLink(attempt, net) ==
    IF attempt = max_retries
    THEN [ok |-> FALSE, attempts |-> attempt, error |-> "Max retries exceeded"]
    ELSE LET o == net[attempt + 1] IN
         IF o = "ok" THEN [ok |-> TRUE, attempts |-> attempt + 1, error |-> "none"]
         ELSE IF o = "unauthorized"
         THEN IF Authenticate THEN PostLink(attempt + 1, net)
              ELSE [ok |-> FALSE, attempts |-> attempt + 1,
                    error |-> "Re-authentication failed"]
         ELSE IF attempt < max_retries - 1 THEN PostLink(attempt + 1, net)
         ELSE [ok |-> FALSE, attempts |-> attempt + 1, error |-> o]

\* AirwallexPaymentService.create_payment_link, counting the requests it sends
CreatePaymentLinkCall(net) ==
    LET r == IF ~Authenticate
             THEN [ok |-> FALSE, attempts |-> 0, error |-> "Authentication failed"]
             ELSE PostLink(0, net)
    IN
    /\ airwallex = "service"
    /\ result' = [NoResult EXCEPT !.op = "create_payment_link", !.ok = r.ok,
                                  !.error = r.error, !.attempts = r.attempts,
                                  !.network = net]
    /\ UNCHANGED <<now, airwallex, credentials_ok, payment_sessions, payment_history,
                   revenue_stats, link_status, cancel_calls, inflight,
                   botvars, hookvars, schedvars, stepvars, storevars>>

\* AirwallexPaymentService.get_payment_link_status: one GET, whose failure of
\* any kind is the answer
GetPaymentLinkStatusCall(net) ==
    LET r == IF ~Authenticate
             THEN [ok |-> FALSE, attempts |-> 0, error |-> "Authentication failed"]
             ELSE IF net[1] = "ok" THEN [ok |-> TRUE, attempts |-> 1, error |-> "none"]
             ELSE [ok |-> FALSE, attempts |-> 1, error |-> net[1]]
    IN
    /\ airwallex = "service"
    /\ result' = [NoResult EXCEPT !.op = "get_payment_link_status", !.ok = r.ok,
                                  !.error = r.error, !.attempts = r.attempts,
                                  !.network = net]
    /\ UNCHANGED <<now, airwallex, credentials_ok, payment_sessions, payment_history,
                   revenue_stats, link_status, cancel_calls, inflight,
                   botvars, hookvars, schedvars, stepvars, storevars>>

\* the payer completes the hosted payment page
PayLink(link) ==
    /\ link \in DOMAIN link_status
    /\ link_status[link] = "ACTIVE"
    /\ link_status' = [link_status EXCEPT ![link] = "PAID"]
    /\ UNCHANGED <<now, airwallex, credentials_ok, payment_sessions, payment_history,
                   revenue_stats, cancel_calls, inflight, result,
                   botvars, hookvars, schedvars, stepvars, storevars>>

\* =================================================== Payment Session Manager
SessionId(user_id) == <<user_id, now>>

NewSession(user_id, plan_id) ==
    [user_id |-> user_id, plan_id |-> plan_id, status |-> "pending",
     created_at |-> now, expires_at |-> now + SessionTTL,
     payment_method |-> NoMethod, payment_link_id |-> NoLink,
     transaction_id |-> NoTxn, attempts |-> <<>>]

Suspended(sid) == \E f \in inflight : f.sid = sid

\* a session whose confirmation is suspended is not replaced: the model does
\* not follow orphaned session objects
Replaceable(sid) == ~Suspended(sid)

\* PaymentProcessor.create_payment_session
CreatePaymentSession(user_id, plan_id) ==
    /\ Replaceable(SessionId(user_id))
    /\ payment_sessions' =
           Put(payment_sessions, SessionId(user_id), NewSession(user_id, plan_id))
    /\ result' = [NoResult EXCEPT !.op = "create_payment_session",
                                  !.sid = SessionId(user_id), !.ok = TRUE,
                                  !.user_id = user_id]
    /\ UNCHANGED <<now, airwallex, credentials_ok, payment_history, revenue_stats,
                   link_status, cancel_calls, inflight,
                   botvars, hookvars, schedvars, stepvars, storevars>>

\* the plan configuration is edited in place:
\* config["subscription_plans"][plan_id]["days"] = days
EditPlan(plan_id, days) ==
    /\ plan_objects' = [plan_objects EXCEPT ![plan_id].days = days]
    /\ UNCHANGED <<now, procvars, botvars, hookvars, schedvars, storevars,
                   expired_users, sweep>>

Attempt(method, status) == [method |-> method, status |-> status]

\* a failure result that does not offer the other rail
PlainFailure(op, sid) ==
    [NoResult EXCEPT !.op = op, !.sid = sid, !.error = "gateway"]

Fallback(op, sid) ==
    [NoResult EXCEPT !.op = op, !.sid = sid, !.error = "gateway",
                     !.fallback_available = TRUE, !.fallback_method = "stars"]

\* what a process_card_payment call meets: the link is created, the gateway
\* call reports an error, or a statement of the try block raises
CardOutcomes == {"created", "error", "exception"}

\* PaymentProcessor.process_card_payment
ProcessCardPayment(sid, net) ==
    /\ IF sid \notin DOMAIN payment_sessions
       THEN /\ result' = [NoResult EXCEPT !.op = "process_card_payment", !.sid = sid,
                                          !.error = "invalid_session"]
            /\ UNCHANGED <<payment_sessions, link_status>>
       ELSE IF airwallex = "none"
       THEN /\ result' = Fallback("process_card_payment", sid)
            /\ UNCHANGED <<payment_sessions, link_status>>
       ELSE IF net = "exception"
       THEN \* lines 220-228: status failed, no attempt record
            /\ payment_sessions' = [payment_sessions EXCEPT ![sid] =
                   [@ EXCEPT !.status = "failed", !.payment_method = "card"]]
            /\ link_status' = link_status
            /\ result' = Fallback("process_card_payment", sid)
       ELSE LET s == payment_sessions[sid]
                r == CreatePaymentLink(net)
            IN  IF r.ok
                THEN /\ payment_sessions' = [payment_sessions EXCEPT ![sid] =
                            [s EXCEPT !.status = "processing",
                                      !.payment_method = "card",
                                      !.payment_link_id = r.id,
                                      !.attempts = Append(@, Attempt("card", "link_created"))]]
                     /\ link_status' = Put(link_status, r.id, "ACTIVE")
                     /\ result' = [NoResult EXCEPT !.op = "process_card_payment",
                                                   !.sid = sid, !.ok = TRUE,
                                                   !.payment_method = "card"]
                ELSE /\ payment_sessions' = [payment_sessions EXCEPT ![sid] =
                            [s EXCEPT !.status = "failed",
                                      !.payment_method = "card",
                                      !.attempts = Append(@, Attempt("card", "failed"))]]
                     /\ link_status' = link_status
                     /\ result' = Fallback("process_card_payment", sid)
    /\ UNCHANGED <<now, airwallex, credentials_ok, payment_history, revenue_stats,
                   cancel_calls, inflight, botvars, hookvars, schedvars, stepvars, storevars>>

\* PaymentProcessor.process_stars_payment
ProcessStarsPayment(sid) ==
    /\ IF sid \notin DOMAIN payment_sessions
       THEN /\ result' = [NoResult EXCEPT !.op = "process_stars_payment", !.sid = sid,
                                          !.error = "invalid_session"]
            /\ UNCHANGED payment_sessions
       ELSE /\ payment_sessions' = [payment_sessions EXCEPT ![sid] =
                   [@ EXCEPT !.status = "processing",
                             !.payment_method = "stars",
                             !.attempts = Append(@, Attempt("stars", "invoice_created"))]]
            /\ result' = [NoResult EXCEPT !.op = "process_stars_payment",
                                          !.sid = sid, !.ok = TRUE,
                                          !.payment_method = "stars"]
    /\ UNCHANGED <<now, airwallex, credentials_ok, payment_history, revenue_stats,
                   link_status, cancel_calls, inflight,
                   botvars, hookvars, schedvars, stepvars, storevars>>

\* ------------------------------------------------------------ confirm_payment
\* lines 285-297: by session id, else by payment-link id
FindSession(session_id, payment_link_id) ==
    IF session_id # NoSession /\ session_id \in DOMAIN payment_sessions
    THEN session_id
    ELSE IF /\ payment_link_id # NoLink
            /\ \E sid \in DOMAIN payment_sessions :
                   payment_sessions[sid].payment_link_id = payment_link_id
         THEN CHOOSE sid \in DOMAIN payment_sessions :
                   payment_sessions[sid].payment_link_id = payment_link_id
         ELSE NoSession

\* lines 301-303: the only case in which the remote status is asked for
NeedsRemoteCheck(payment_method, payment_link_id) ==
    payment_method = "card" /\ airwallex # "none" /\ payment_link_id # NoLink

\* the session object a confirmation holds: the sweep may have moved it to the
\* history while the confirmation was suspended
SessionObject(sid) ==
    IF sid \in DOMAIN payment_sessions THEN payment_sessions[sid]
    ELSE payment_history[sid]

\* what the model keeps of an entry of payment_history (a copy of the session
\* dictionary, with subscription_expires when a confirmation wrote it)
HistoryEntry(s, subscription_expires) ==
    [user_id |-> s.user_id, plan_id |-> s.plan_id, status |-> s.status,
     transaction_id |-> s.transaction_id,
     subscription_expires |-> subscription_expires]

\* lines 309-311
ConfirmedSession(s, transaction_id) ==
    [s EXCEPT !.status = "completed", !.transaction_id = transaction_id]

\* line 315
SubscriptionExpires(s) == now + PlanDetails(s).days * DAY

\* lines 318-323
RevenueAfter(s, payment_method) ==
    IF payment_method = "card"
    THEN [revenue_stats EXCEPT !.card.count = @ + 1,
                               !.card.total_usd = @ + PlanDetails(s).stars * CentsPerStar]
    ELSE IF payment_method = "stars"
    THEN [revenue_stats EXCEPT !.stars.count = @ + 1,
                               !.stars.total_stars = @ + PlanDetails(s).stars]
    ELSE revenue_stats

\* lines 309-329, which run without suspension once the remote check is over
ConfirmCommit(sid, transaction_id, payment_method) ==
    LET s == SessionObject(sid) IN
    /\ payment_sessions' =
           IF sid \in DOMAIN payment_sessions
           THEN [payment_sessions EXCEPT ![sid] = ConfirmedSession(s, transaction_id)]
           ELSE payment_sessions
    /\ revenue_stats' = RevenueAfter(s, payment_method)
    /\ payment_history' =
           Put(payment_history, sid,
               HistoryEntry(ConfirmedSession(s, transaction_id), SubscriptionExpires(s)))

\* lines 331-344: payment_method.value raises when no method was passed, after
\* the session, the counters and the history have been written
ConfirmOk(payment_method) == payment_method # NoMethod

ConfirmResult(sid, payment_method, remote_paid) ==
    LET s == SessionObject(sid) IN
    IF ConfirmOk(payment_method)
    THEN [NoResult EXCEPT !.op = "confirm_payment", !.sid = sid, !.ok = TRUE,
                          !.payment_method = payment_method,
                          !.remote_paid = remote_paid,
                          !.user_id = s.user_id,
                          !.expires_at = SubscriptionExpires(s)]
    ELSE [NoResult EXCEPT !.op = "confirm_payment", !.sid = sid,
                          !.error = "exception"]

NotFound == [NoResult EXCEPT !.op = "confirm_payment", !.error = "not_found"]
NotConfirmed(sid, payment_method) ==
    [NoResult EXCEPT !.op = "confirm_payment", !.sid = sid,
                     !.payment_method = payment_method, !.error = "not_confirmed"]

NoRequest ==
    [has_headers |-> FALSE, timestamp |-> NoTime, key |-> "none", fmt |-> "none",
     json_ok |-> FALSE, event |-> NoEvent]

Frame(sid, payment_link_id, transaction_id, payment_method, caller, user_id, req, overlap) ==
    [sid |-> sid, payment_link_id |-> payment_link_id,
     transaction_id |-> transaction_id, payment_method |-> payment_method,
     caller |-> caller, user_id |-> user_id, req |-> req, overlap |-> overlap]

\* PaymentProcessor.confirm_payment called directly, up to its return or to its
\* suspension in get_payment_link_status
ConfirmPayment(session_id, payment_link_id, transaction_id, payment_method) ==
    LET sid == FindSession(session_id, payment_link_id) IN
    /\ IF sid = NoSession
       THEN /\ result' = NotFound
            /\ UNCHANGED <<payment_sessions, revenue_stats, payment_history, inflight>>
       ELSE IF NeedsRemoteCheck(payment_method, payment_link_id)
       THEN /\ inflight' = inflight \cup
                   {Frame(sid, payment_link_id, transaction_id, payment_method,
                          "api", NoUser, NoRequest, FALSE)}
            /\ UNCHANGED <<payment_sessions, revenue_stats, payment_history, result>>
       ELSE /\ ConfirmCommit(sid, transaction_id, payment_method)
            /\ result' = ConfirmResult(sid, payment_method, FALSE)
            /\ UNCHANGED inflight
    /\ UNCHANGED <<now, airwallex, credentials_ok, link_status, cancel_calls,
                   botvars, hookvars, schedvars, stepvars, storevars>>

\* ============================================================ Webhook Receiver
SecretKey == "secret"
EventNames == {"payment_intent.succeeded", "payment_intent.failed",
               "payment_link.expired", "refund.succeeded", "payment_link.paid"}

\* The signature of a request is the HMAC-SHA256 its sender computed with `key`
\* over its own timestamp and body laid out as `fmt`: "ts+body" is
\* f"{timestamp}{body}", "id.ts" is f"{webhook_id}.{timestamp}".
SignatureSchemes == {"ts+body", "id.ts"}

\* hmac.new(key, payload, sha256).hexdigest(), collision-free: equal digests
\* come from equal keys and equal payloads. A payload is the sequence of the
\* strings formatted into it.
Hmac(key, payload) == [key |-> key, payload |-> payload]

\* a header timestamp is its decimal string
Stamp(t) == ToString(t)

\* tests/test_webhook_security.py generate_signature: what the gateway sends
GenerateSignature(body, timestamp) == Hmac(SecretKey, <<timestamp, body>>)

\* the raw body of a request and the x-signature header its sender computed
Body(req) == IF req.json_ok THEN req.event.id ELSE "not json"
SignatureOf(req) ==
    Hmac(req.key, IF req.fmt = "ts+body" THEN <<Stamp(req.timestamp), Body(req)>>
                  ELSE <<req.event.id, ".", Stamp(req.timestamp)>>)

\* the request is what the gateway sends: signed with the shared secret over
\* timestamp + raw body (tests/test_webhook_security.py generate_signature)
SignatureCorrect(req) == req.key = SecretKey /\ req.fmt = "ts+body"

Fresh(req) ==
    /\ req.timestamp - now <= TOLERANCE_SECONDS
    /\ now - req.timestamp <= TOLERANCE_SECONDS

\* what the sender of a request is entitled to: no signature headers at all,
\* a signature that is wrong or stale, or the gateway's own fresh signature
Auth(req) ==
    IF ~req.has_headers THEN "missing"
    ELSE IF SignatureCorrect(req) /\ Fresh(req) THEN "good" ELSE "bad"

\* AirwallexPaymentService.verify_webhook_signature(webhook_id, timestamp,
\* signature): the HMAC of f"{webhook_id}.{timestamp}", and no look at the clock
VerifyWebhookSignature(webhook_id, timestamp, signature) ==
    IF ~webhook_secret THEN TRUE
    ELSE signature = Hmac(SecretKey, <<webhook_id, ".", timestamp>>)

VerifyParams == {"webhook_id", "timestamp", "signature"}
HandlerVerifyKwargs == {"body", "timestamp", "signature", "tolerance_seconds"}

\* handle_webhook lines 65-76: the keyword call binds only if the callee has
\* parameters of those names; otherwise Python raises TypeError
VerifyCall(req) ==
    IF ~(HandlerVerifyKwargs \subseteq VerifyParams) THEN "TypeError"
    ELSE IF VerifyWebhookSignature(Body(req), Stamp(req.timestamp), SignatureOf(req))
         THEN "valid" ELSE "invalid"

\* how a caller passes (body, timestamp, signature): by keyword, as
\* handle_webhook and the unit test do, or by position
CallStyles == {"keyword", "positional"}

\* a direct call verify_webhook_signature(body, timestamp, signature) on the
\* gateway client: keywords must name parameters of the callee, positions
\* bind to (webhook_id, timestamp, signature)
DirectVerify(style, body, timestamp, signature) ==
    LET outcome ==
            IF style = "keyword" /\ ~({"body", "timestamp", "signature"} \subseteq VerifyParams)
            THEN "TypeError"
            ELSE IF VerifyWebhookSignature(body, Stamp(timestamp), signature)
                 THEN "true" ELSE "false"
    IN
    /\ airwallex = "service"
    /\ verified' = [style |-> style, body |-> body, timestamp |-> timestamp,
                    signature |-> signature, outcome |-> outcome]
    /\ UNCHANGED <<now, procvars, botvars, webhook_secret, processed_webhooks, processed_others,
                   dispatched, deliveries, schedvars, stepvars, storevars>>

Delivery(req, status, ran, overlap) ==
    [id |-> req.event.id, status |-> status, auth |-> Auth(req),
     ran |-> ran, overlap |-> overlap]

Overlaps(req) ==
    \E f \in inflight : f.caller = "webhook" /\ f.req.event.id = req.event.id

\* a receiver that answers 200 and forgets to record the event id
AcknowledgeUnrecorded(req, overlap) ==
    /\ UNCHANGED <<processed_webhooks, processed_others>>
    /\ deliveries' = Append(deliveries, Delivery(req, 200, TRUE, overlap))

\* handle_webhook lines 102-105: over the cap the set is rebuilt from the last
\* ProcessedKeep items of list(self.processed_webhooks). A set of strings
\* lists its items in hash order, which the order of insertion does not
\* decide: any ProcessedKeep of the ids may be the ones kept.
Trimmed(ids, others) ==
    IF Cardinality(ids) + others <= ProcessedCap
    THEN {[ids |-> ids, others |-> others]}
    ELSE {[ids |-> kept, others |-> ProcessedKeep - Cardinality(kept)] :
             kept \in {k \in SUBSET ids : /\ Cardinality(k) <= ProcessedKeep
                                          /\ ProcessedKeep - Cardinality(k) <= others}}

\* handle_webhook lines 99-109 after process_webhook_event returned
Acknowledge(req, overlap) ==
    /\ \E after \in Trimmed(processed_webhooks \cup {req.event.id}, processed_others) :
          /\ processed_webhooks' = after.ids
          /\ processed_others' = after.others
    /\ deliveries' = Append(deliveries, Delivery(req, 200, TRUE, overlap))

\* a caller that invites and records the subscription whatever confirm_payment
\* returned
NotifyRegardless(telegram_id, ok, expires_at) ==
    /\ invites' = [invites EXCEPT ![telegram_id] = @ + 1]
    /\ user_subscriptions' = [user_subscriptions EXCEPT ![telegram_id] = expires_at]

\* handle_payment_success lines 178-215 once confirm_payment has returned
NotifyPaid(telegram_id, ok, expires_at) ==
    IF ok
    THEN /\ invites' = [invites EXCEPT ![telegram_id] = @ + 1]
         /\ user_subscriptions' = [user_subscriptions EXCEPT ![telegram_id] = expires_at]
    ELSE UNCHANGED <<invites, user_subscriptions>>

\* what the caller of confirm_payment does with its return value
Continue(f, ok, expires_at) ==
    IF f.caller = "webhook"
    THEN /\ NotifyPaid(f.req.event.telegram_id, ok, expires_at)
         /\ Acknowledge(f.req, f.overlap)
    ELSE IF f.caller = "button"
    THEN /\ NotifyPaid(f.user_id, ok, expires_at)
         /\ UNCHANGED <<processed_webhooks, processed_others, deliveries>>
    ELSE UNCHANGED <<user_subscriptions, invites, processed_webhooks, processed_others, deliveries>>

\* confirm_payment lines 304-344: the remote status arrives
ConfirmResume(f, net_ok) ==
    LET r == GetPaymentLinkStatus(f.payment_link_id, net_ok)
        paid == r.ok /\ r.status = "PAID"
    IN
    /\ f \in inflight
    /\ inflight' = inflight \ {f}
    /\ IF ~paid
       THEN /\ result' = NotConfirmed(f.sid, f.payment_method)
            /\ UNCHANGED <<payment_sessions, revenue_stats, payment_history>>
            /\ Continue(f, FALSE, NoTime)
       ELSE /\ ConfirmCommit(f.sid, f.transaction_id, f.payment_method)
            /\ result' = ConfirmResult(f.sid, f.payment_method, TRUE)
            /\ Continue(f, TRUE, SubscriptionExpires(SessionObject(f.sid)))
    /\ UNCHANGED <<now, airwallex, credentials_ok, link_status, cancel_calls,
                   pending_payments, webhook_secret, dispatched, verified, schedvars, stepvars, storevars>>

\* the requests tried: how the sender signed, and what the body parses to
Signings ==
    {[timestamp |-> now, key |-> SecretKey, fmt |-> "ts+body"],
     [timestamp |-> now, key |-> "wrong", fmt |-> "ts+body"],
     [timestamp |-> now - 600, key |-> SecretKey, fmt |-> "ts+body"],
     [timestamp |-> now, key |-> SecretKey, fmt |-> "id.ts"]}

Events ==
    [id : EventIds \cup {NoEventId}, name : {"payment_intent.succeeded"},
     telegram_id : {1, NoUser, BadTid},
     payment_link_id : (DOMAIN link_status) \cup {NoLink}, amount_ok : {TRUE}]
    \cup
    [id : EventIds, name : {"refund.succeeded"}, telegram_id : {1},
     payment_link_id : {NoLink}, amount_ok : BOOLEAN]
    \cup
    [id : EventIds, name : EventNames \ {"payment_intent.succeeded", "refund.succeeded"},
     telegram_id : {1}, payment_link_id : {NoLink}, amount_ok : {TRUE}]

Request(has_headers, signing, json_ok, event) ==
    [has_headers |-> has_headers, timestamp |-> signing.timestamp,
     key |-> signing.key, fmt |-> signing.fmt, json_ok |-> json_ok, event |-> event]

Requests ==
    {Request(FALSE, s, TRUE, e) : s \in {CHOOSE x \in Signings : x.key = "wrong"},
                                  e \in {ev \in Events : ev.name = "payment_link.paid"}}
    \cup {Request(TRUE, s, FALSE, NoEvent) : s \in Signings}
    \cup {Request(TRUE, s, TRUE, e) : s \in Signings, e \in Events}

Respond(req, status) ==
    /\ deliveries' = Append(deliveries, Delivery(req, status, FALSE, Overlaps(req)))
    /\ UNCHANGED <<now, procvars, botvars, webhook_secret, processed_webhooks, processed_others,
                   dispatched, verified, schedvars, stepvars, storevars>>

\* AirwallexWebhookHandler.handle_webhook with process_webhook_event and the
\* event handlers, up to the response or to the suspension inside confirm_payment
HandleWebhook(req) ==
    LET e == req.event
        check == IF webhook_secret /\ airwallex # "none" THEN VerifyCall(req) ELSE "skipped"
    IN
    /\ IF ~req.has_headers THEN Respond(req, 400)
       ELSE IF check = "TypeError" THEN Respond(req, 500)
       ELSE IF check = "invalid" THEN Respond(req, 401)
       ELSE IF ~req.json_ok THEN Respond(req, 400)
       ELSE IF e.id = NoEventId THEN Respond(req, 400)
       ELSE IF e.id \in processed_webhooks THEN Respond(req, 200)
       ELSE
         /\ dispatched' = [dispatched EXCEPT ![e.id] = @ + 1]
         /\ UNCHANGED <<now, airwallex, credentials_ok, link_status, cancel_calls,
                        webhook_secret, pending_payments, verified, schedvars, stepvars, storevars>>
         /\ IF e.name = "refund.succeeded" /\ ~e.amount_ok
            THEN \* handle_refund_success: amount/100 raises, handle_webhook answers 500
                 /\ deliveries' = Append(deliveries, Delivery(req, 500, TRUE, Overlaps(req)))
                 /\ UNCHANGED <<payment_sessions, payment_history, revenue_stats, inflight,
                                result, user_subscriptions, invites, processed_webhooks, processed_others>>
            ELSE IF e.name # "payment_intent.succeeded" \/ e.telegram_id \notin Users
            THEN /\ Acknowledge(req, Overlaps(req))
                 /\ UNCHANGED <<payment_sessions, payment_history, revenue_stats, inflight,
                                result, user_subscriptions, invites>>
            ELSE LET sid == FindSession(NoSession, e.payment_link_id)
                     f == Frame(sid, e.payment_link_id, "tx1", "card", "webhook",
                                NoUser, req, Overlaps(req))
                 IN
                 /\ IF sid = NoSession
                    THEN /\ result' = NotFound
                         /\ Continue(f, FALSE, NoTime)
                         /\ UNCHANGED <<payment_sessions, payment_history, revenue_stats,
                                        inflight>>
                    ELSE IF NeedsRemoteCheck("card", e.payment_link_id)
                    THEN /\ inflight' = inflight \cup {f}
                         /\ UNCHANGED <<payment_sessions, payment_history, revenue_stats,
                                        result, user_subscriptions, invites,
                                        processed_webhooks, processed_others, deliveries>>
                    ELSE /\ ConfirmCommit(sid, "tx1", "card")
                         /\ result' = ConfirmResult(sid, "card", FALSE)
                         /\ NotifyPaid(e.telegram_id, TRUE, SubscriptionExpires(SessionObject(sid)))
                         /\ Acknowledge(req, Overlaps(req))
                         /\ UNCHANGED inflight

\* ===================================================== handlers/payments.py
\* process_stars_payment (the pay_stars_ callback): session, invoice payload
\* and the pending_payments entry
PayStars(user_id, plan_id) ==
    LET sid == SessionId(user_id)
        s == [NewSession(user_id, plan_id) EXCEPT
                 !.status = "processing", !.payment_method = "stars",
                 !.attempts = <<Attempt("stars", "invoice_created")>>]
    IN
    /\ Replaceable(sid)
    /\ payment_sessions' = Put(payment_sessions, sid, s)
    /\ pending_payments' = Put(pending_payments, sid,
                               [user_id |-> user_id, plan_id |-> plan_id])
    /\ result' = [NoResult EXCEPT !.op = "process_stars_payment", !.sid = sid,
                                  !.ok = TRUE, !.payment_method = "stars"]
    /\ UNCHANGED <<now, airwallex, credentials_ok, payment_history, revenue_stats,
                   link_status, cancel_calls, inflight, user_subscriptions, invites,
                   hookvars, schedvars, stepvars, storevars>>

\* process_successful_payment: the Stars receipt
ProcessSuccessfulPayment(payment_id) ==
    LET info == pending_payments[payment_id]
        sid == FindSession(payment_id, NoLink)
        ok == sid # NoSession
        expires_at == IF ok THEN SubscriptionExpires(SessionObject(sid))
                      ELSE now + plan_objects[info.plan_id].days * DAY
    IN
    /\ payment_id \in DOMAIN pending_payments
    /\ IF ok
       THEN /\ ConfirmCommit(sid, "tx1", "stars")
            /\ result' = ConfirmResult(sid, "stars", FALSE)
       ELSE /\ result' = NotFound
            /\ UNCHANGED <<payment_sessions, revenue_stats, payment_history>>
    /\ user_subscriptions' = [user_subscriptions EXCEPT ![info.user_id] = expires_at]
    /\ pending_payments' = Drop(pending_payments, payment_id)
    /\ invites' = [invites EXCEPT ![info.user_id] = @ + 1]
    /\ UNCHANGED <<now, airwallex, credentials_ok, link_status, cancel_calls, inflight,
                   hookvars, schedvars, stepvars, storevars>>

\* confirm_card_payment (the "I've Paid" button): its own status check, then
\* confirm_payment by session id and link id
ConfirmCardPayment(sid, net_ok) ==
    LET s == payment_sessions[sid]
        r == GetPaymentLinkStatus(s.payment_link_id, net_ok)
    IN
    /\ sid \in DOMAIN payment_sessions
    /\ s.payment_link_id # NoLink
    /\ airwallex # "none"
    /\ r.ok /\ r.status = "PAID"
    /\ inflight' = inflight \cup
           {Frame(sid, s.payment_link_id, NoTxn, "card", "button", s.user_id,
                  NoRequest, FALSE)}
    /\ UNCHANGED <<now, airwallex, credentials_ok, payment_sessions, payment_history,
                   revenue_stats, link_status, cancel_calls, result,
                   botvars, hookvars, schedvars, stepvars, storevars>>

\* ------------------------------------------------------------- cancel_payment
CancelPayment(sid, net_ok) ==
    LET s == payment_sessions[sid]
        links == IF s.payment_link_id # NoLink /\ airwallex # "none"
                 THEN {s.payment_link_id} ELSE {}
    IN
    /\ sid \in DOMAIN payment_sessions
    /\ cancel_calls' = CancelCallsAfter(links)
    /\ link_status' = LinksAfterCancel(links, IF net_ok THEN links ELSE {})
    /\ payment_sessions' = [payment_sessions EXCEPT ![sid].status = "cancelled"]
    /\ UNCHANGED <<now, airwallex, credentials_ok, payment_history, revenue_stats,
                   inflight, result, botvars, hookvars, schedvars, stepvars, storevars>>

\* --------------------------------------------------- cleanup_expired_sessions
ExpiredSessions ==
    {sid \in DOMAIN payment_sessions :
        /\ payment_sessions[sid].expires_at < now
        /\ payment_sessions[sid].status \in {"pending", "processing"}}

\* a sweep that expires and archives the sessions but leaves their links alone
CleanupKeepsLinks(reached) ==
    LET expired == ExpiredSessions IN
    /\ reached = {}
    /\ payment_sessions' =
           [sid \in (DOMAIN payment_sessions) \ expired |-> payment_sessions[sid]]
    /\ payment_history' =
           [sid \in (DOMAIN payment_history) \cup expired |->
               IF sid \in expired
               THEN HistoryEntry([payment_sessions[sid] EXCEPT !.status = "expired"], NoTime)
               ELSE payment_history[sid]]
    /\ UNCHANGED <<now, airwallex, credentials_ok, revenue_stats, inflight, result,
                   link_status, cancel_calls, botvars, hookvars, schedvars, stepvars, storevars>>

CleanupExpiredSessions(reached) ==
    LET expired == ExpiredSessions
        links == IF airwallex = "none" THEN {}
                 ELSE {payment_sessions[sid].payment_link_id : sid \in expired} \ {NoLink}
    IN
    /\ reached \subseteq links
    /\ cancel_calls' = CancelCallsAfter(links)
    /\ link_status' = LinksAfterCancel(links, reached)
    /\ payment_sessions' =
           [sid \in (DOMAIN payment_sessions) \ expired |-> payment_sessions[sid]]
    /\ payment_history' =
           [sid \in (DOMAIN payment_history) \cup expired |->
               IF sid \in expired
               THEN HistoryEntry([payment_sessions[sid] EXCEPT !.status = "expired"], NoTime)
               ELSE payment_history[sid]]
    /\ UNCHANGED <<now, airwallex, credentials_ok, revenue_stats, inflight, result,
                   botvars, hookvars, schedvars, stepvars, storevars>>

\* ---- cleanup_expired_sessions step by step: it walks payment_sessions.items()
\* and is suspended inside the loop at each cancel_payment_link call
NoSweep == [link |-> NoLink, rest |-> <<>>, marked |-> {}, now0 |-> NoTime, size |-> 0]

\* the keys of payment_sessions in insertion order: a session id carries its
\* creation second, and ids of one second are taken in order of user id
RECURSIVE InsertionOrder(_)
InsertionOrder(sids) ==
    IF sids = {} THEN <<>>
    ELSE LET first == CHOOSE x \in sids :
                         \A y \in sids : x[2] < y[2] \/ (x[2] = y[2] /\ x[1] <= y[1])
         IN  <<first>> \o InsertionOrder(sids \ {first})

\* lines 434-442 from the item the iterator yields next, up to the next
\* cancel_payment_link call or to the end of the dictionary
RECURSIVE WalkSessions(_, _, _, _)
WalkSessions(todo, sessions, marked, now0) ==
    IF todo = <<>>
    THEN [sessions |-> sessions, marked |-> marked, rest |-> <<>>, link |-> NoLink]
    ELSE LET sid == Head(todo)
             s == sessions[sid]
             due == s.expires_at < now0 /\ s.status \in {"pending", "processing"}
             after == [sessions EXCEPT ![sid].status = "expired"]
         IN
         IF ~due THEN WalkSessions(Tail(todo), sessions, marked, now0)
         ELSE IF s.payment_link_id # NoLink /\ airwallex # "none"
         THEN [sessions |-> after, marked |-> marked \cup {sid}, rest |-> Tail(todo),
               link |-> s.payment_link_id]
         ELSE WalkSessions(Tail(todo), after, marked \cup {sid}, now0)

\* the walk has stopped at `w`: either inside a cancel_payment_link call, or
\* at the end, where lines 444-449 pop every marked session into the history
SweepOn(w, now0, size) ==
    IF w.link # NoLink
    THEN /\ payment_sessions' = w.sessions
         /\ cancel_calls' = CancelCallsAfter({w.link})
         /\ sweep' = [link |-> w.link, rest |-> w.rest, marked |-> w.marked,
                      now0 |-> now0, size |-> size]
         /\ UNCHANGED <<payment_history, result>>
    ELSE /\ payment_sessions' =
                [sid \in (DOMAIN w.sessions) \ w.marked |-> w.sessions[sid]]
         /\ payment_history' =
                [sid \in (DOMAIN payment_history) \cup w.marked |->
                    IF sid \in w.marked THEN HistoryEntry(w.sessions[sid], NoTime)
                    ELSE payment_history[sid]]
         /\ result' = [NoResult EXCEPT !.op = "cleanup_expired_sessions", !.ok = TRUE,
                                       !.processed = Cardinality(w.marked)]
         /\ sweep' = NoSweep
         /\ UNCHANGED cancel_calls

\* cleanup_expired_sessions is called
CleanupBegin ==
    /\ sweep = NoSweep
    /\ SweepOn(WalkSessions(InsertionOrder(DOMAIN payment_sessions), payment_sessions,
                            {}, now),
               now, Cardinality(DOMAIN payment_sessions))
    /\ UNCHANGED <<now, airwallex, credentials_ok, revenue_stats, inflight, link_status,
                   botvars, hookvars, schedvars, storevars, expired_users, plan_objects>>

\* cancel_payment_link returns and the loop asks the iterator for its next
\* item: a dictionary whose size changed since the iterator was made raises
\* RuntimeError, which nothing in cleanup_expired_sessions catches
CleanupResume(reached) ==
    /\ sweep # NoSweep
    /\ link_status' = LinksAfterCancel({sweep.link}, IF reached THEN {sweep.link} ELSE {})
    /\ IF Cardinality(DOMAIN payment_sessions) # sweep.size
       THEN /\ result' = [NoResult EXCEPT !.op = "cleanup_expired_sessions",
                                          !.ok = FALSE, !.error = "RuntimeError"]
            /\ sweep' = NoSweep
            /\ UNCHANGED <<payment_sessions, payment_history, cancel_calls>>
       ELSE LET w == WalkSessions(sweep.rest, payment_sessions, sweep.marked, sweep.now0)
            IN  SweepOn(w, sweep.now0, sweep.size)
    /\ UNCHANGED <<now, airwallex, credentials_ok, revenue_stats, inflight,
                   botvars, hookvars, schedvars, storevars, expired_users, plan_objects>>

\* ------------------------------------------------------------------ the clock
Tick(d) ==
    /\ now' = now + d
    /\ UNCHANGED <<procvars, botvars, hookvars, schedvars, stepvars, storevars>>

\* PaymentProcessor.initialize, at startup: the gateway client is rebuilt from
\* the environment, or dropped when that fails
Initialize(ok) ==
    /\ payment_sessions = <<>> /\ deliveries = <<>> /\ now = StartDay * DAY
    /\ airwallex' = IF ok THEN "service" ELSE "none"
    /\ UNCHANGED <<now, credentials_ok, payment_sessions, payment_history,
                   revenue_stats, link_status, cancel_calls, inflight, result,
                   botvars, hookvars, schedvars, stepvars, storevars>>

\* =========================================================== Subscription Store
Row(status, next_payment_date, payment_method) ==
    [exists |-> TRUE, subscription_status |-> status,
     next_payment_date |-> next_payment_date, payment_method |-> payment_method]
NoRow ==
    [exists |-> FALSE, subscription_status |-> "expired",
     next_payment_date |-> NoDate, payment_method |-> NoMethod]

\* the rows a user can have when the process starts
InitRows ==
    {NoRow, Row("expired", NoDate, NoMethod), Row("whitelisted", NoDate, "whitelisted"),
     Row("active", StartDay - 5, "stars"), Row("active", StartDay + 10, "card")}

\* the store rows of the renewal examples: one user still subscribed for ten
\* days, one lapsed five days ago
SampleUsers ==
    [u \in Users |-> IF u = 1 THEN Row("active", StartDay + 10, "card")
                               ELSE Row("active", StartDay - 5, "stars")]


\* a row of activity_log; the database stamps it with the current time
LogEntry(telegram_id, action) ==
    [telegram_id |-> telegram_id, action |-> action, day |-> Today]

\* SupabaseClient.update_user lines 202-207: a keyword whose value is None is
\* dropped from the UPDATE, like a keyword that was not passed
UpdateUser(row, subscription_status, payment_method, next_payment_date) ==
    [row EXCEPT
        !.subscription_status =
            IF subscription_status # NoStatus THEN subscription_status ELSE @,
        !.payment_method = IF payment_method # NoMethod THEN payment_method ELSE @,
        !.next_payment_date =
            IF next_payment_date # NoDate THEN next_payment_date ELSE @]

\* SupabaseClient.whitelist_user, with get_or_create_user and create_user
WhitelistUser(telegram_id, db_ok) ==
    LET row == IF users[telegram_id].exists THEN users[telegram_id]
               ELSE Row("expired", NoDate, NoMethod)
    IN
    /\ users' = IF db_ok
                THEN [users EXCEPT ![telegram_id] =
                         UpdateUser(row, "whitelisted", "whitelisted", NoDate)]
                ELSE users
    /\ result' = [NoResult EXCEPT !.op = "whitelist_user", !.ok = db_ok,
                                  !.user_id = telegram_id]
    /\ UNCHANGED <<now, airwallex, credentials_ok, payment_sessions, payment_history,
                   revenue_stats, link_status, cancel_calls, inflight,
                   botvars, hookvars, schedvars, stepvars, activity_log>>

\* SupabaseClient.bulk_whitelist_users for a batch of one: the upsert writes
\* every column of the record, the null date included
BulkWhitelistUsers(telegram_id, db_ok) ==
    /\ users' = IF db_ok
                THEN [users EXCEPT ![telegram_id] =
                         Row("whitelisted", NoDate, "whitelisted")]
                ELSE users
    /\ result' = [NoResult EXCEPT !.op = "bulk_whitelist_users", !.ok = db_ok,
                                  !.user_id = telegram_id]
    /\ UNCHANGED <<now, airwallex, credentials_ok, payment_sessions, payment_history,
                   revenue_stats, link_status, cancel_calls, inflight,
                   botvars, hookvars, schedvars, stepvars, activity_log>>

\* update_user followed by log_activity when update_user returned a row
UpdateAndLog(op, telegram_id, subscription_status, action, db_ok) ==
    LET ok == db_ok /\ users[telegram_id].exists IN
    /\ users' = IF ok
                THEN [users EXCEPT ![telegram_id] =
                         UpdateUser(@, subscription_status, NoMethod, NoDate)]
                ELSE users
    /\ activity_log' = IF ok THEN Append(activity_log, LogEntry(telegram_id, action))
                       ELSE activity_log
    /\ result' = [NoResult EXCEPT !.op = op, !.ok = ok, !.user_id = telegram_id]
    /\ UNCHANGED <<now, airwallex, credentials_ok, payment_sessions, payment_history,
                   revenue_stats, link_status, cancel_calls, inflight,
                   botvars, hookvars, schedvars, stepvars>>

\* SupabaseClient.remove_from_whitelist
RemoveFromWhitelist(telegram_id, db_ok) ==
    UpdateAndLog("remove_from_whitelist", telegram_id, "expired",
                 "user_removed_from_group", db_ok)

\* SupabaseClient.cancel_subscription
CancelSubscription(telegram_id, db_ok) ==
    UpdateAndLog("cancel_subscription", telegram_id, "expired",
                 "subscription_cancelled", db_ok)

ManualPeriodDays == 30                  \* timedelta(days=30)

\* SupabaseClient.get_user: None when the select raises or finds no row
GetUser(telegram_id, fetch_ok) == fetch_ok /\ users[telegram_id].exists

\* SupabaseClient.create_user: the insert fails when the store does, and when
\* a row with this telegram_id, the table's unique key, is already there
CreateUser(telegram_id, write_ok) == write_ok /\ ~users[telegram_id].exists

\* SupabaseClient._manual_activate_subscription
ManualActivateSubscription(telegram_id, payment_method, extend_from_today, fetch_ok, write_ok) ==
    LET found == GetUser(telegram_id, fetch_ok)
        created == ~found /\ CreateUser(telegram_id, write_ok)
        row == IF found THEN users[telegram_id] ELSE Row("expired", NoDate, NoMethod)
        new_expiry ==
            IF extend_from_today \/ row.next_payment_date = NoDate
                                 \/ row.next_payment_date < Today
            THEN Today + ManualPeriodDays
            ELSE row.next_payment_date + ManualPeriodDays
        updated == (found \/ created) /\ write_ok
    IN
    /\ users' = IF updated
                THEN [users EXCEPT ![telegram_id] =
                         UpdateUser(row, "active", payment_method, new_expiry)]
                ELSE users
    /\ activity_log' =
           IF updated THEN Append(activity_log, LogEntry(telegram_id, "payment_successful"))
           ELSE activity_log
    /\ result' = [NoResult EXCEPT !.op = "activate_subscription", !.ok = updated,
                                  !.error = IF updated THEN "none"
                                            ELSE IF ~found /\ ~created
                                            THEN "Failed to create user"
                                            ELSE "Failed to update user subscription",
                                  !.user_id = telegram_id,
                                  !.payment_method = payment_method]
    /\ UNCHANGED <<now, airwallex, credentials_ok, payment_sessions, payment_history,
                   revenue_stats, link_status, cancel_calls, inflight,
                   botvars, hookvars, schedvars, stepvars>>

\* the names the Scheduler looks up: the methods SupabaseClient has and the
\* members ActivityAction has
StoreMethods == {"get_expiring_subscriptions", "get_user_activity", "log_activity"}
ActivityActionNames ==
    {"SUBSCRIPTION_STARTED", "SUBSCRIPTION_RENEWED", "SUBSCRIPTION_EXPIRED",
     "SUBSCRIPTION_CANCELLED", "PAYMENT_SUCCESSFUL", "PAYMENT_FAILED",
     "USER_JOINED_GROUP", "USER_REMOVED_FROM_GROUP", "USER_WHITELISTED",
     "USER_CREATED", "USER_UPDATED"}

\* SubscriptionManager.extend_subscription: the row is updated, then the
\* keyword action=ActivityAction.SUBSCRIPTION_EXTENDED.value raises
\* AttributeError, nothing is logged and the method returns False
ExtendSubscription(telegram_id, days, fetch_ok, write_ok) ==
    LET found == GetUser(telegram_id, fetch_ok)
        row == users[telegram_id]
        new_date == IF row.next_payment_date # NoDate /\ row.next_payment_date > Today
                    THEN row.next_payment_date + days
                    ELSE Today + days
        logged == found /\ "SUBSCRIPTION_EXTENDED" \in ActivityActionNames
    IN
    /\ users' = IF found /\ write_ok
                THEN [users EXCEPT ![telegram_id] = UpdateUser(row, "active", NoMethod, new_date)]
                ELSE users
    /\ activity_log' = IF logged
                       THEN Append(activity_log, LogEntry(telegram_id, "subscription_extended"))
                       ELSE activity_log
    /\ result' = [NoResult EXCEPT !.op = "extend_subscription", !.ok = logged,
                                  !.user_id = telegram_id]
    /\ UNCHANGED <<now, airwallex, credentials_ok, payment_sessions, payment_history,
                   revenue_stats, link_status, cancel_calls, inflight,
                   botvars, hookvars, schedvars, stepvars>>

\* an admin extension that sets the status and leaves the date alone
AdminActivateOnly(telegram_id, fetch_ok, write_ok) ==
    /\ users' = IF GetUser(telegram_id, fetch_ok) /\ write_ok
                THEN [users EXCEPT ![telegram_id].subscription_status = "active"]
                ELSE users
    /\ result' = [NoResult EXCEPT !.op = "admin_extend_subscription", !.ok = TRUE,
                                  !.user_id = telegram_id]
    /\ UNCHANGED <<now, airwallex, credentials_ok, payment_sessions, payment_history,
                   revenue_stats, link_status, cancel_calls, inflight,
                   botvars, hookvars, schedvars, stepvars, activity_log>>

\* AdminDashboard.extend_subscription: thirty days on the stored date, past
\* or not, or from today when there is none; redirects to /users either way
AdminExtendSubscription(telegram_id, fetch_ok, write_ok) ==
    LET found == GetUser(telegram_id, fetch_ok)
        row == users[telegram_id]
        new_date == IF row.next_payment_date # NoDate
                    THEN row.next_payment_date + ManualPeriodDays
                    ELSE Today + ManualPeriodDays
    IN
    /\ users' = IF found /\ write_ok
                THEN [users EXCEPT ![telegram_id] = UpdateUser(row, "active", NoMethod, new_date)]
                ELSE users
    /\ result' = [NoResult EXCEPT !.op = "admin_extend_subscription", !.ok = TRUE,
                                  !.user_id = telegram_id]
    /\ UNCHANGED <<now, airwallex, credentials_ok, payment_sessions, payment_history,
                   revenue_stats, link_status, cancel_calls, inflight,
                   botvars, hookvars, schedvars, stepvars, activity_log>>

\* ==================================================================== Scheduler
\* no process_expired_subscriptions call stands between its query and its loop
NoQuery == {NoUser}

\* SupabaseClient.get_expired_subscriptions: status active and
\* next_payment_date < today; a null date never compares less
GetExpiredSubscriptions(db_ok) ==
    IF db_ok
    THEN {u \in Users : /\ users[u].exists
                        /\ users[u].subscription_status = "active"
                        /\ users[u].next_payment_date # NoDate
                        /\ users[u].next_payment_date < Today}
    ELSE {}

\* get_expired_subscriptions returns User dataclass objects, and
\* process_expired_subscriptions reads user_data['telegram_id']: only a
\* dictionary answers a subscript, and only a dictionary has .get
DictRecord == "dict"                     \* rows returned as plain dictionaries
ExpiredRecordType == "User"
Subscriptable == {"dict"}

RECURSIVE ExpiredEntries(_)
ExpiredEntries(ids) ==
    IF ids = {} THEN <<>>
    ELSE LET u == CHOOSE x \in ids : \A y \in ids : x <= y
         IN  <<LogEntry(u, "subscription_expired")>> \o ExpiredEntries(ids \ {u})

\* what Telegram answers to ban_chat_member for a user
TelegramAnswers == {"ok", "user not found", "error"}

\* SubscriptionManager.remove_from_group: every exception is caught; absence
\* from the group counts as removed, any other error returns False
RemoveFromGroup(u, telegram) == telegram[u] \in {"ok", "user not found"}

\* SubscriptionManager.process_expired_subscriptions: the subscript raises
\* TypeError on the first row, the handler of that exception raises
\* AttributeError on user_data.get, and the outer handler returns 0. The
\* return value of remove_from_group is not read.
ExpiredRaised(db_ok) ==
    GetExpiredSubscriptions(db_ok) # {} /\ ExpiredRecordType \notin Subscriptable
ExpiredDone(db_ok) ==
    IF ExpiredRaised(db_ok) THEN {} ELSE GetExpiredSubscriptions(db_ok)

\* an expire step that writes expired into every row of the table
ExpireEveryRow(done) ==
    [u \in Users |-> UpdateUser(users[u], "expired", NoMethod, NoDate)]

UsersAfterExpiry(done) ==
    [u \in Users |->
        IF u \in done THEN UpdateUser(users[u], "expired", NoMethod, NoDate)
        ELSE users[u]]

ProcessExpiredSubscriptions(db_ok, telegram) ==
    LET raised == ExpiredRaised(db_ok)
        done == ExpiredDone(db_ok)
    IN
    /\ users' = UsersAfterExpiry(done)
    /\ activity_log' = activity_log \o ExpiredEntries(done)
    /\ result' = [NoResult EXCEPT !.op = "process_expired_subscriptions",
                                  !.ok = ~raised, !.processed = Cardinality(done),
                                  !.unevicted = {u \in done : ~RemoveFromGroup(u, telegram)},
                                  !.evicted = done]
    /\ UNCHANGED <<now, airwallex, credentials_ok, payment_sessions, payment_history,
                   revenue_stats, link_status, cancel_calls, inflight,
                   botvars, hookvars, schedvars, stepvars>>

\* process_expired_subscriptions line 100: the query answers, and the rows it
\* returned are what the loop will walk; the store is a remote database that
\* other writers reach before the loop writes
QueryExpired(db_ok) ==
    /\ expired_users = NoQuery
    /\ expired_users' = GetExpiredSubscriptions(db_ok)
    /\ UNCHANGED <<now, procvars, botvars, hookvars, schedvars, storevars, sweep,
                   plan_objects>>

\* process_expired_subscriptions lines 103-135 over the rows the query
\* returned: update_user writes subscription_status alone, on the row as it is
\* now
WalkExpired(telegram) ==
    LET raised == expired_users # {} /\ ExpiredRecordType \notin Subscriptable
        done == IF raised THEN {} ELSE expired_users
    IN
    /\ expired_users # NoQuery
    /\ expired_users' = NoQuery
    /\ users' = UsersAfterExpiry(done)
    /\ activity_log' = activity_log \o ExpiredEntries(done)
    /\ result' = [NoResult EXCEPT !.op = "process_expired_subscriptions",
                                  !.ok = ~raised, !.processed = Cardinality(done),
                                  !.unevicted = {u \in done : ~RemoveFromGroup(u, telegram)},
                                  !.queried = expired_users, !.evicted = done]
    /\ UNCHANGED <<now, airwallex, credentials_ok, payment_sessions, payment_history,
                   revenue_stats, link_status, cancel_calls, inflight,
                   botvars, hookvars, schedvars, sweep, plan_objects>>

\* SubscriptionManager.reminder_days
reminder_days == <<3, 1>>

\* SupabaseClient.get_expiring_subscriptions(days): status active and
\* today <= next_payment_date <= today + days; a null date matches neither bound
GetExpiringSubscriptions(days, db_ok) ==
    IF db_ok
    THEN {u \in Users : /\ users[u].exists
                        /\ users[u].subscription_status = "active"
                        /\ users[u].next_payment_date # NoDate
                        /\ users[u].next_payment_date >= Today
                        /\ users[u].next_payment_date <= Today + days}
    ELSE {}

\* get_expiring_subscriptions returns User dataclass objects too
ExpiringRecordType == "User"

\* the run so far: the activity log and the users send_payment_reminder was
\* called for, in order
RemindedToday(log, u) ==
    \E i \in DOMAIN log :
        log[i].telegram_id = u /\ log[i].action = "reminder_sent" /\ log[i].day = Today

\* send_payment_reminders lines 147-176 for one row whose subscript answered
RemindUser(u, st) ==
    IF "get_user_activities" \notin StoreMethods
    THEN st                         \* AttributeError, logged by the inner handler
    ELSE IF "REMINDER_SENT" \notin ActivityActionNames
    THEN IF \E i \in DOMAIN st.log : st.log[i].telegram_id = u
         THEN st                    \* AttributeError inside any(...)
         ELSE [st EXCEPT !.reminded = Append(@, u)]     \* raised at log_activity
    ELSE IF RemindedToday(st.log, u) THEN st
    ELSE [log |-> Append(st.log, LogEntry(u, "reminder_sent")),
          reminded |-> Append(st.reminded, u), sent |-> st.sent + 1]

RECURSIVE RemindUsers(_, _)
RemindUsers(ids, st) ==
    IF ids = {} THEN st
    ELSE LET u == CHOOSE x \in ids : \A y \in ids : x <= y
         IN  RemindUsers(ids \ {u}, RemindUser(u, st))

\* one pass of the loop over reminder_days: on a row that is not a dictionary
\* the subscript raises TypeError, the inner handler raises AttributeError on
\* user_data.get, and the outer handler ends the pass for this lead time
RemindLeadTime(days, st, db_ok) ==
    LET expiring_users == GetExpiringSubscriptions(days, db_ok) IN
    IF expiring_users # {} /\ ExpiringRecordType \notin Subscriptable
    THEN st
    ELSE RemindUsers(expiring_users, st)

\* the loop over reminder_days, started on activity log `log`
RemindersAfter(log, db_ok) ==
    LET start == [log |-> log, reminded |-> <<>>, sent |-> 0] IN
    RemindLeadTime(reminder_days[2], RemindLeadTime(reminder_days[1], start, db_ok), db_ok)

\* SubscriptionManager.send_payment_reminders
SendPaymentReminders(db_ok) ==
    LET after == RemindersAfter(activity_log, db_ok) IN
    /\ activity_log' = after.log
    /\ result' = [NoResult EXCEPT !.op = "send_payment_reminders", !.ok = TRUE,
                                  !.processed = after.sent, !.reminded = after.reminded]
    /\ UNCHANGED <<now, airwallex, credentials_ok, payment_sessions, payment_history,
                   revenue_stats, link_status, cancel_calls, inflight,
                   botvars, hookvars, schedvars, stepvars, users>>

\* ------------------------------------------------------ the automation task
check_time == 9 * 3600                  \* time(9, 0)
BackOff == 3600                         \* asyncio.sleep(3600)

\* _automation_loop lines 56-60: today's check time, or tomorrow's once passed
NextCheck ==
    IF Today * DAY + check_time <= now THEN (Today + 1) * DAY + check_time
    ELSE Today * DAY + check_time

\* the task is over: it returned, or it ended with CancelledError
Finished == {"done", "cancelled"}

\* a start_automation without the is_running test of line 32
StartUnguarded ==
    /\ is_running' = TRUE
    /\ automation_task' = "created"
    /\ cancelling' = FALSE
    /\ cancelled_at' = "none"
    /\ UNCHANGED <<now, procvars, botvars, hookvars, stepvars, already_running, stopper,
                   daily_runs, loop_errors, storevars>>

\* SubscriptionManager.start_automation
StartAutomation ==
    /\ IF is_running
       THEN /\ already_running' = already_running + 1
            /\ UNCHANGED <<is_running, automation_task, cancelling, cancelled_at>>
       ELSE /\ is_running' = TRUE
            /\ automation_task' = "created"
            /\ cancelling' = FALSE
            /\ cancelled_at' = "none"
            /\ UNCHANGED already_running
    /\ UNCHANGED <<now, procvars, botvars, hookvars, stepvars, stopper, daily_runs, loop_errors,
                   storevars>>

\* a stop_automation that does not wait for the task it cancelled
StopWithoutAwait ==
    /\ is_running' = FALSE
    /\ IF automation_task = "none" \/ automation_task \in Finished
       THEN UNCHANGED <<cancelling, cancelled_at>>
       ELSE /\ cancelling' = TRUE
            /\ cancelled_at' = automation_task
    /\ UNCHANGED <<now, procvars, botvars, hookvars, stepvars, already_running, automation_task, stopper,
                   daily_runs, loop_errors, storevars>>

\* SubscriptionManager.stop_automation up to `await self.automation_task`;
\* cancel() on a task that is over does nothing, and awaiting it returns at once
StopAutomation ==
    /\ is_running' = FALSE
    /\ IF automation_task = "none" \/ automation_task \in Finished
       THEN UNCHANGED <<cancelling, cancelled_at, stopper>>
       ELSE /\ cancelling' = TRUE
            /\ cancelled_at' = automation_task
            /\ stopper' = "awaiting"
    /\ UNCHANGED <<now, procvars, botvars, hookvars, stepvars, already_running, automation_task, daily_runs,
                   loop_errors, storevars>>

\* stop_automation lines 45-49: the awaited task is over
StopReturns ==
    /\ stopper = "awaiting"
    /\ automation_task \in Finished
    /\ stopper' = "idle"
    /\ UNCHANGED <<now, procvars, botvars, hookvars, stepvars, already_running, is_running, automation_task,
                   cancelling, cancelled_at, daily_runs, loop_errors, storevars>>

\* `while self.is_running:` on the way back to the top of the loop
LoopTop == IF is_running THEN "sleeping" ELSE "done"

\* the task's first run, up to asyncio.sleep(wait_seconds); a task cancelled
\* before it ever ran ends without entering the loop
LoopEnter ==
    /\ automation_task = "created"
    /\ automation_task' = IF cancelling THEN "cancelled" ELSE LoopTop
    /\ cancelling' = FALSE
    /\ UNCHANGED <<now, procvars, botvars, hookvars, stepvars, already_running, is_running, stopper, cancelled_at,
                   daily_runs, loop_errors, storevars>>

\* asyncio.sleep(wait_seconds) ends: by CancelledError, caught at line 71, or
\* at the check time, and then run_daily_tasks is entered and suspends at its
\* first await, which comes before any write to the store
LoopWake ==
    /\ automation_task = "sleeping"
    /\ IF cancelling
       THEN /\ automation_task' = "done"
            /\ cancelling' = FALSE
            /\ UNCHANGED <<now, daily_runs>>
       ELSE /\ now' = NextCheck
            /\ automation_task' = "running"
            /\ daily_runs' = daily_runs + 1
            /\ UNCHANGED cancelling
    /\ UNCHANGED <<procvars, botvars, hookvars, stepvars, already_running, is_running, stopper, cancelled_at,
                   loop_errors, storevars>>

\* a loop that lets the exception of a daily run end the task
LoopRunUncaught(db_ok, raises) ==
    /\ automation_task = "running"
    /\ automation_task' = IF cancelling \/ raises THEN "done" ELSE LoopTop
    /\ cancelling' = FALSE
    /\ loop_errors' = IF ~cancelling /\ raises THEN loop_errors + 1 ELSE loop_errors
    /\ UNCHANGED <<now, procvars, botvars, hookvars, stepvars, already_running, is_running, stopper, cancelled_at,
                   daily_runs, storevars>>

\* run_daily_tasks resumes: CancelledError at its suspension ends the run and
\* the loop (line 71); otherwise process_expired_subscriptions,
\* send_payment_reminders and the rest of the run finish, and an exception out
\* of the run is logged and followed by asyncio.sleep(3600) (lines 73-76)
LoopRun(db_ok, raises) ==
    /\ automation_task = "running"
    /\ IF cancelling
       THEN /\ automation_task' = "done"
            /\ cancelling' = FALSE
            /\ UNCHANGED <<users, activity_log, result, loop_errors>>
       ELSE /\ LET done == ExpiredDone(db_ok)
                   after == RemindersAfter(activity_log \o ExpiredEntries(done), db_ok)
               IN /\ users' = UsersAfterExpiry(done)
                  /\ activity_log' = after.log
                  /\ result' = [NoResult EXCEPT !.op = "run_daily_tasks", !.ok = ~raises,
                                                !.processed = Cardinality(done),
                                                !.reminded = after.reminded]
            /\ automation_task' = IF raises THEN "backoff" ELSE LoopTop
            /\ loop_errors' = IF raises THEN loop_errors + 1 ELSE loop_errors
            /\ UNCHANGED cancelling
    /\ UNCHANGED <<now, airwallex, credentials_ok, payment_sessions, payment_history,
                   revenue_stats, link_status, cancel_calls, inflight,
                   botvars, hookvars, stepvars, already_running, is_running, stopper, cancelled_at, daily_runs>>

\* asyncio.sleep(3600) in the exception handler ends: CancelledError raised
\* there is outside the try and ends the task; otherwise back to the loop test
LoopBackOff ==
    /\ automation_task = "backoff"
    /\ IF cancelling
       THEN /\ automation_task' = "cancelled"
            /\ cancelling' = FALSE
            /\ UNCHANGED now
       ELSE /\ now' = now + BackOff
            /\ automation_task' = LoopTop
            /\ UNCHANGED cancelling
    /\ UNCHANGED <<procvars, botvars, hookvars, stepvars, already_running, is_running, stopper, cancelled_at,
                   daily_runs, loop_errors, storevars>>

\* after PaymentProcessor.__init__, AirwallexWebhookHandler.__init__ and the
\* module-level dictionaries of the handlers
Constructed ==
    /\ now = StartDay * DAY
    /\ airwallex \in {"service", "none"}
    /\ payment_sessions = <<>>
    /\ payment_history = <<>>
    /\ revenue_stats = [card |-> [count |-> 0, total_usd |-> 0],
                        stars |-> [count |-> 0, total_stars |-> 0]]
    /\ link_status = <<>>
    /\ cancel_calls = [l \in LinkIds |-> 0]
    /\ inflight = {}
    /\ result = NoResult
    /\ verified = NoVerify
    /\ is_running = FALSE
    /\ automation_task = "none"
    /\ cancelling = FALSE
    /\ stopper = "idle"
    /\ cancelled_at = "none"
    /\ daily_runs = 0
    /\ loop_errors = 0
    /\ already_running = 0
    /\ user_subscriptions = [u \in Users |-> NoTime]
    /\ pending_payments = <<>>
    /\ invites = [u \in Users |-> 0]
    /\ processed_webhooks = {}
    /\ dispatched = [e \in EventIds |-> 0]
    /\ deliveries = <<>>
    /\ activity_log = <<>>
    /\ expired_users = NoQuery
    /\ sweep = NoSweep
    /\ plan_objects = subscription_plans

\* a process that has just started: the receiver has recorded no event yet
InitProcess == Constructed /\ processed_others = 0

\* ------------------------------------ the bounds, as guards of the steps taken
SessionsLeft(sid) == sid \notin KnownSessionIds /\ Cardinality(KnownSessionIds) < MaxSessions
AttemptsLeft(sid) ==
    sid \in DOMAIN payment_sessions => Len(payment_sessions[sid].attempts) < MaxAttempts
LinksLeft == NextLink <= MaxLinks
RevenueLeft ==
    revenue_stats.card.count < MaxRevenue /\ revenue_stats.stars.count < MaxRevenue
InFlightLeft == Cardinality(inflight) < MaxInFlight
CancelsLeft == \A l \in LinkIds : cancel_calls[l] < MaxCancels
DeliveriesLeft ==
    Len(deliveries) + Cardinality({f \in inflight : f.caller = "webhook"}) < MaxDeliveries
WarningsLeft == is_running => already_running < MaxWarnings
ClockLeft(d) ==
    /\ d = 1 => now % DAY < MaxSecs
    /\ d = DAY => Today < StartDay + MaxDays

\* ---- the Payment Session Manager
Init ==
    /\ InitProcess
    /\ credentials_ok \in BOOLEAN
    /\ webhook_secret = FALSE
    /\ users = SampleUsers

Create ==
    \E u \in Users, p \in PlanIds :
        SessionsLeft(SessionId(u)) /\ CreatePaymentSession(u, p)
Card ==
    \E sid \in SessionIdArgs, net \in CardOutcomes :
        AttemptsLeft(sid) /\ LinksLeft /\ ProcessCardPayment(sid, net)
Stars ==
    \E sid \in SessionIdArgs : AttemptsLeft(sid) /\ ProcessStarsPayment(sid)
Confirm ==
    \E sid \in SessionIdArgs \cup {NoSession}, l \in (DOMAIN link_status) \cup {NoLink},
       t \in TxnIds, m \in Methods \cup {NoMethod} :
        RevenueLeft /\ InFlightLeft /\ ConfirmPayment(sid, l, t, m)
Resume ==
    \E f \in inflight, net_ok \in BOOLEAN : ConfirmResume(f, net_ok)
Cancel ==
    \E sid \in SessionIdArgs, net_ok \in BOOLEAN : CancelsLeft /\ CancelPayment(sid, net_ok)
Pay ==
    \E l \in LinkIds : PayLink(l)
Sweep ==
    \E reached \in SUBSET LinkIds : CancelsLeft /\ CleanupExpiredSessions(reached)
Clock ==
    \E d \in {1, DAY} : ClockLeft(d) /\ Tick(d)
Startup ==
    \E ok \in BOOLEAN : Initialize(ok)

Next == Create \/ Card \/ Stars \/ Confirm \/ Resume \/ Cancel \/ Pay

Spec == Init /\ [][Next]_vars

\* ---- the session sweep and the clock
SweepNext == Create \/ Card \/ Stars \/ Cancel \/ Sweep \/ Clock \/ Startup

SweepSpec == Init /\ [][SweepNext]_vars

\* ---- the chat handlers of the two rails
StarsInvoice ==
    \E u \in Users, p \in PlanIds : SessionsLeft(SessionId(u)) /\ PayStars(u, p)
StarsReceipt ==
    \E pid \in DOMAIN pending_payments : RevenueLeft /\ ProcessSuccessfulPayment(pid)
PaidButton ==
    \E sid \in DOMAIN payment_sessions, net_ok \in BOOLEAN :
        RevenueLeft /\ InFlightLeft /\ ConfirmCardPayment(sid, net_ok)

BotNext ==
    StarsInvoice \/ StarsReceipt \/ Create \/ Card \/ PaidButton \/ Resume \/ Pay \/ Clock

BotSpec == Init /\ [][BotNext]_vars

\* ---- the Webhook Receiver in front of the Payment Session Manager
HookInit ==
    /\ InitProcess
    /\ credentials_ok = TRUE
    /\ webhook_secret \in BOOLEAN
    /\ users = SampleUsers

Webhook ==
    \E req \in Requests :
        DeliveriesLeft /\ RevenueLeft /\ InFlightLeft /\ HandleWebhook(req)

HookNext == Webhook \/ Resume \/ Create \/ Card \/ Pay

HookSpec == HookInit /\ [][HookNext]_vars

\* ---- the Subscription Store and the Scheduler's expire step
StoreInit ==
    /\ InitProcess
    /\ airwallex = "service"
    /\ credentials_ok = TRUE
    /\ webhook_secret = FALSE
    /\ users \in [Users -> InitRows]

LogLeft == Len(activity_log) < MaxLog
ExpiryLeft(u) == users[u].next_payment_date < StartDay + MaxExpiryDays

Whitelist ==
    \E u \in Users, db_ok \in BOOLEAN : WhitelistUser(u, db_ok)
BulkWhitelist ==
    \E u \in Users, db_ok \in BOOLEAN : BulkWhitelistUsers(u, db_ok)
Unwhitelist ==
    \E u \in Users, db_ok \in BOOLEAN : LogLeft /\ RemoveFromWhitelist(u, db_ok)
Unsubscribe ==
    \E u \in Users, db_ok \in BOOLEAN : LogLeft /\ CancelSubscription(u, db_ok)
Activate ==
    \E u \in Users, m \in Methods, from_today \in BOOLEAN,
       fetch_ok \in BOOLEAN, write_ok \in BOOLEAN :
        LogLeft /\ ExpiryLeft(u)
                /\ ManualActivateSubscription(u, m, from_today, fetch_ok, write_ok)
ExpireStep ==
    \E db_ok \in BOOLEAN, telegram \in [Users -> TelegramAnswers] :
        LogLeft /\ ProcessExpiredSubscriptions(db_ok, telegram)
NextDay == ClockLeft(DAY) /\ Tick(DAY)

StoreNext ==
    Whitelist \/ BulkWhitelist \/ Unwhitelist \/ Unsubscribe \/ Activate
    \/ ExpireStep \/ NextDay

StoreSpec == StoreInit /\ [][StoreNext]_vars

\* ======================================================================= claims
Last(seq) == seq[Len(seq)]
CountLog(log, telegram_id, action) ==
    Cardinality({i \in DOMAIN log :
                    log[i].telegram_id = telegram_id /\ log[i].action = action})
SessionPlanDays(sid) == PlanDetails(SessionObject(sid)).days

\* C1: a payment is counted in the revenue statistics only by a confirmation
\* that takes a session from a status other than completed to completed; a
\* second confirm_payment on a completed session counts nothing again.
ConfirmCountsOnce ==
    [][revenue_stats' # revenue_stats =>
          \E sid \in (DOMAIN payment_sessions) \cap (DOMAIN payment_sessions') :
              /\ payment_sessions[sid].status # "completed"
              /\ payment_sessions'[sid].status = "completed"]_vars

ConfirmedTwice ==
    /\ Cardinality(KnownSessionIds) = 1
    /\ revenue_stats.card.count + revenue_stats.stars.count = 2

\* C2: a confirm_payment with payment_method = card that returned success got
\* status PAID from get_payment_link_status during that call.
CardConfirmedOnlyWhenPaid ==
    (result.op = "confirm_payment" /\ result.payment_method = "card" /\ result.ok)
        => result.remote_paid

CardConfirmedUnchecked ==
    /\ result.op = "confirm_payment" /\ result.payment_method = "card" /\ result.ok
    /\ ~result.remote_paid
    /\ payment_sessions[result.sid].status = "completed"

\* C3: while a session is completed, the Subscription Store holds the user as
\* active with an expiry that covers the plan bought, and the activity log
\* holds exactly one payment entry of that user.
CompletedIsStored ==
    \A sid \in DOMAIN payment_sessions :
        payment_sessions[sid].status = "completed" =>
            LET u == payment_sessions[sid].user_id IN
            /\ users[u].exists
            /\ users[u].subscription_status = "active"
            /\ users[u].next_payment_date >= Today + SessionPlanDays(sid)
            /\ CountLog(activity_log, u, "payment_successful") = 1

CompletedUnstored ==
    \E sid \in DOMAIN payment_sessions :
        /\ payment_sessions[sid].status = "completed"
        /\ activity_log = <<>>
        /\ users = SampleUsers

\* C4: the expiry a successful confirm_payment returns is the user's stored
\* next_payment_date plus the plan's days when that date is still in the
\* future, and today plus the plan's days otherwise.
StackedExpiry(row, days) ==
    IF row.exists /\ row.next_payment_date # NoDate /\ row.next_payment_date > Today
    THEN row.next_payment_date + days
    ELSE Today + days

RenewalStacks ==
    (result.op = "confirm_payment" /\ result.ok) =>
        result.expires_at \div DAY =
            StackedExpiry(users[result.user_id], SessionPlanDays(result.sid))

RenewedEarly ==
    /\ result.op = "confirm_payment" /\ result.ok
    /\ users[result.user_id].next_payment_date = Today + 10
    /\ SessionPlanDays(result.sid) = 30

\* C5: with a webhook secret configured, a request whose signature is wrong or
\* whose timestamp is outside the tolerance is answered 401, is not dispatched
\* to an event handler, and leaves the processed set as it was.
Answered == Len(deliveries') = Len(deliveries) + 1

BadSignatureRejected ==
    [][(webhook_secret /\ Answered /\ Last(deliveries').auth = "bad") =>
          /\ Last(deliveries').status = 401
          /\ ~Last(deliveries').ran
          /\ dispatched' = dispatched
          /\ processed_webhooks' = processed_webhooks]_vars

BadSignatureAnswered ==
    /\ webhook_secret
    /\ \E i \in DOMAIN deliveries : deliveries[i].auth = "bad"

\* C6: when one event id is delivered twice, one request after the other, both
\* with the gateway's fresh signature, both are answered 200 and
\* process_webhook_event has run once for that id (an event whose handler
\* raised is answered 500 and is not the case of this claim).
HandlerRaised(d) == d.status = 500 /\ d.ran

SameEventTwice ==
    \A i, j \in DOMAIN deliveries :
        (/\ i < j
         /\ deliveries[i].id = deliveries[j].id
         /\ deliveries[i].id # NoEventId
         /\ deliveries[i].auth = "good" /\ deliveries[j].auth = "good"
         /\ ~deliveries[i].overlap /\ ~deliveries[j].overlap
         /\ ~HandlerRaised(deliveries[i]) /\ ~HandlerRaised(deliveries[j]))
        => /\ deliveries[i].status = 200
           /\ deliveries[j].status = 200
           /\ dispatched[deliveries[i].id] = 1

DeliveredTwice ==
    /\ Len(deliveries) = 2
    /\ deliveries[1].id = deliveries[2].id
    /\ deliveries[1].id # NoEventId
    /\ deliveries[1].auth = "good" /\ deliveries[2].auth = "good"
    /\ ~deliveries[1].overlap /\ ~deliveries[2].overlap
    /\ webhook_secret /\ airwallex = "service"

\* C7: a session whose status is completed, failed, cancelled or expired keeps
\* that status through every later process_card_payment, process_stars_payment
\* and confirm_payment (cancel_payment, which writes cancelled, is not one of
\* them).
TerminalStays ==
    [][\A sid \in (DOMAIN payment_sessions) \cap (DOMAIN payment_sessions') :
          payment_sessions[sid].status \in Terminal =>
              payment_sessions'[sid].status \in {payment_sessions[sid].status, "cancelled"}]_vars

FailedThenProcessed ==
    \E sid \in DOMAIN payment_sessions :
        /\ payment_sessions[sid].status = "processing"
        /\ Len(payment_sessions[sid].attempts) = 2
        /\ payment_sessions[sid].attempts[1].status = "failed"

\* C8: a confirm_payment that returns failure for a session it found leaves
\* the session table, the payment history and the revenue counters as they
\* were before the call.
ConfirmFailed ==
    /\ result' # result
    /\ result'.op = "confirm_payment" /\ ~result'.ok /\ result'.sid # NoSession

FailedConfirmChangesNothing ==
    [][ConfirmFailed =>
          /\ payment_sessions' = payment_sessions
          /\ payment_history' = payment_history
          /\ revenue_stats' = revenue_stats]_vars

ConfirmRaised ==
    /\ result.op = "confirm_payment" /\ ~result.ok /\ result.error = "exception"
    /\ payment_sessions[result.sid].status = "completed"

\* C9: when the expire step has run with the store reachable, every user who
\* was active with next_payment_date before today at its start is expired and
\* has one more subscription_expired entry in the activity log.
ExpireStepExpires ==
    [][(\E telegram \in [Users -> TelegramAnswers] : ProcessExpiredSubscriptions(TRUE, telegram)) =>
          \A u \in GetExpiredSubscriptions(TRUE) :
              /\ users'[u].subscription_status = "expired"
              /\ CountLog(activity_log', u, "subscription_expired") =
                     CountLog(activity_log, u, "subscription_expired") + 1]_vars

ExpireStepOverdue ==
    /\ result.op = "process_expired_subscriptions"
    /\ GetExpiredSubscriptions(TRUE) # {}

\* C10: a user whose subscription_status is whitelisted has no
\* next_payment_date.
WhitelistedHasNoDate ==
    \A u \in Users :
        (users[u].exists /\ users[u].subscription_status = "whitelisted")
            => users[u].next_payment_date = NoDate

WhitelistedWhileActive ==
    /\ result.op = "whitelist_user" /\ result.ok
    /\ users[result.user_id].subscription_status = "whitelisted"
    /\ users[result.user_id].next_payment_date # NoDate

\* ---- session ids: create_payment_session called again within the clock second
Recreate ==
    \E u \in Users, p \in PlanIds :
        /\ SessionId(u) \in KnownSessionIds \/ Cardinality(KnownSessionIds) < MaxSessions
        /\ CreatePaymentSession(u, p)
Second == ClockLeft(1) /\ Tick(1)

IdNext == Recreate \/ Card \/ Stars \/ Cancel \/ Second

IdSpec == Init /\ [][IdNext]_vars

\* C11: the id create_payment_session returns is not a key of the session
\* table at the time of the call, so no existing session is overwritten.
CreateReturnsFreshId ==
    [][(\E u \in Users, p \in PlanIds : CreatePaymentSession(u, p))
          => result'.sid \notin DOMAIN payment_sessions]_vars

LinkedSessionOverwritten ==
    /\ result.op = "create_payment_session"
    /\ Cardinality(DOMAIN link_status) = 1
    /\ \A sid \in DOMAIN payment_sessions :
           payment_sessions[sid].payment_link_id = NoLink
           /\ payment_sessions[sid].status = "pending"
    /\ DOMAIN payment_sessions # {}

\* C12: when cleanup_expired_sessions has run, every session that was pending
\* or processing with expires_at before now is out of the session table and in
\* the history with status expired, and one cancel_payment_link request has
\* been sent for the payment link of each such session that had one.
SweepExpiresAndCancels ==
    [][\A reached \in SUBSET LinkIds :
          CleanupExpiredSessions(reached) =>
              \A sid \in ExpiredSessions :
                  /\ sid \notin DOMAIN payment_sessions'
                  /\ sid \in DOMAIN payment_history'
                  /\ payment_history'[sid].status = "expired"
                  /\ LET l == payment_sessions[sid].payment_link_id IN
                     l # NoLink => cancel_calls'[l] = cancel_calls[l] + 1]_vars

LinkedSessionSwept ==
    /\ payment_sessions = <<>>
    /\ \E sid \in DOMAIN payment_history : payment_history[sid].status = "expired"
    /\ \E l \in DOMAIN link_status : cancel_calls[l] = 1 /\ link_status[l] = "INACTIVE"

\* C13: a process_card_payment call on an existing session that fails returns
\* fallback_available = true and fallback_method = stars, whatever made it
\* fail.
CardFailureOffersStars ==
    (/\ result.op = "process_card_payment"
     /\ ~result.ok
     /\ result.error # "invalid_session")
        => (result.fallback_available /\ result.fallback_method = "stars")

CardFailedOnCredentials ==
    /\ result.op = "process_card_payment" /\ ~result.ok
    /\ result.fallback_available
    /\ airwallex = "service" /\ ~credentials_ok
    /\ payment_sessions[result.sid].status = "failed"
    /\ Len(payment_sessions[result.sid].attempts) = 1

Bodies == {"b1", "b2"}
Stamps == {now, now - 1, now - TOLERANCE_SECONDS - 100}
Signatures ==
    {Hmac(k, <<Stamp(t), b>>) : k \in {SecretKey, "wrong"}, t \in Stamps, b \in Bodies}
    \cup {Hmac(SecretKey, <<b, ".", Stamp(t)>>) : t \in Stamps, b \in Bodies}

Verify ==
    \E style \in CallStyles, body \in Bodies, timestamp \in Stamps, signature \in Signatures :
        DirectVerify(style, body, timestamp, signature)

VerifyNext == Verify

VerifySpec == HookInit /\ [][VerifyNext]_vars

WithinTolerance(timestamp) ==
    /\ timestamp - now <= TOLERANCE_SECONDS
    /\ now - timestamp <= TOLERANCE_SECONDS

\* C14: with a secret configured, verify_webhook_signature(body, timestamp,
\* signature) returns true when the signature is the HMAC of the secret
\* over timestamp followed by body and the timestamp is within the tolerance
\* of the clock, and returns false for every other body, timestamp or signature
SignatureRoundTrip ==
    (webhook_secret /\ verified.outcome # "none") =>
        IF /\ verified.signature = GenerateSignature(verified.body, Stamp(verified.timestamp))
           /\ WithinTolerance(verified.timestamp)
        THEN verified.outcome = "true"
        ELSE verified.outcome = "false"

\* the gateway's own fresh signature was passed by position and refused
GatewaySignatureRefused ==
    /\ webhook_secret
    /\ verified.style = "positional"
    /\ verified.signature = GenerateSignature(verified.body, Stamp(verified.timestamp))
    /\ WithinTolerance(verified.timestamp)
    /\ verified.outcome = "false"

\* C15: handle_webhook answers with the first check that fails, in this
\* order: a missing x-timestamp or x-signature header gives 400; a bad
\* signature or stale timestamp, where signatures are verified, gives 401; an
\* unparsable body gives 400; a missing event id gives 400. In each case no
\* event handler runs and the processed set is unchanged.
FirstFailure(req) ==
    IF ~req.has_headers THEN 400
    ELSE IF webhook_secret /\ airwallex # "none" /\ Auth(req) = "bad" THEN 401
    ELSE IF ~req.json_ok THEN 400
    ELSE IF req.event.id = NoEventId THEN 400
    ELSE 0

ChecksInOrder ==
    [][\A req \in Requests :
          (HandleWebhook(req) /\ FirstFailure(req) # 0) =>
              /\ Last(deliveries').status = FirstFailure(req)
              /\ ~Last(deliveries').ran
              /\ dispatched' = dispatched
              /\ processed_webhooks' = processed_webhooks]_vars

\* a request with the gateway's fresh signature and no event id (an
\* unparsable body or a body without id) was answered where signatures are
\* verified
SignedButMalformedAnswered ==
    /\ webhook_secret /\ airwallex = "service"
    /\ \E i \in DOMAIN deliveries :
          deliveries[i].auth = "good" /\ deliveries[i].id = NoEventId

\* C16: cancel_payment on a session that is already completed, failed,
\* cancelled or expired changes nothing: the status stays and no
\* link-cancellation request goes to the gateway.
CancelOnTerminalIsNoOp ==
    [][\A sid \in DOMAIN payment_sessions, net_ok \in BOOLEAN :
          (CancelPayment(sid, net_ok) /\ payment_sessions[sid].status \in Terminal) =>
              /\ payment_sessions'[sid].status = payment_sessions[sid].status
              /\ cancel_calls' = cancel_calls]_vars

\* a session whose card attempt had failed is now cancelled
FailedThenCancelled ==
    \E sid \in DOMAIN payment_sessions :
        /\ payment_sessions[sid].status = "cancelled"
        /\ payment_sessions[sid].attempts # <<>>
        /\ Last(payment_sessions[sid].attempts).status = "failed"

\* C17: a session becomes completed only from processing; confirm_payment on
\* a session that is still pending does not complete it.
CompletedOnlyFromProcessing ==
    [][\A sid \in (DOMAIN payment_sessions) \cap (DOMAIN payment_sessions') :
          (payment_sessions'[sid].status = "completed"
             /\ payment_sessions[sid].status # "completed") =>
              payment_sessions[sid].status = "processing"]_vars

\* a session on which no payment rail was ever chosen is completed
CompletedWithoutRail ==
    \E sid \in DOMAIN payment_sessions :
        /\ payment_sessions[sid].status = "completed"
        /\ payment_sessions[sid].attempts = <<>>
        /\ payment_sessions[sid].payment_link_id = NoLink

\* C19: on a payment-succeeded webhook event the invite and the subscription
\* record are made only in the step in which confirm_payment returns success;
\* a confirm_payment that fails leaves invites and subscriptions as they were.
ConfirmReturned == result'.op = "confirm_payment"

NotifyOnlyAfterConfirm ==
    [][/\ (invites' # invites \/ user_subscriptions' # user_subscriptions) =>
              (ConfirmReturned /\ result'.ok)
       /\ (ConfirmReturned /\ ~result'.ok /\ Len(deliveries') > Len(deliveries)) =>
              (invites' = invites /\ user_subscriptions' = user_subscriptions)]_vars

\* a payment-succeeded event was handled, confirmed and acknowledged, and its
\* user was invited and has a subscription
PaidEventNotified ==
    /\ result.op = "confirm_payment" /\ result.ok
    /\ \E i \in DOMAIN deliveries : deliveries[i].ran /\ deliveries[i].status = 200
    /\ \E u \in Users : invites[u] = 1 /\ user_subscriptions[u] = result.expires_at

\* C20: in the expire step, a user for whom remove_from_group fails (Telegram
\* says the user is not in the group, or answers with any other error) is
\* still set to expired.
EvictionFailed(u, telegram) == telegram[u] # "ok"

EvictionFailureStillExpires ==
    [][\A telegram \in [Users -> TelegramAnswers] :
          ProcessExpiredSubscriptions(TRUE, telegram) =>
              \A u \in GetExpiredSubscriptions(TRUE) :
                  EvictionFailed(u, telegram) => users'[u].subscription_status = "expired"]_vars

\* the expire step has run and stopped on an exception, and a user it was to
\* evict and expire is still active and overdue
ExpireStepLeftOverdue ==
    /\ result.op = "process_expired_subscriptions" /\ ~result.ok
    /\ result.unevicted = {}
    /\ \E u \in GetExpiredSubscriptions(TRUE) : users[u].subscription_status = "active"

\* ---- the Scheduler's reminder step over users near their expiry
ReminderRows ==
    {Row("expired", NoDate, NoMethod), Row("active", StartDay + 1, "card"),
     Row("active", StartDay + 3, "stars"), Row("active", StartDay + 10, "card")}

RemindInit ==
    /\ InitProcess
    /\ airwallex = "service"
    /\ credentials_ok = TRUE
    /\ webhook_secret = FALSE
    /\ users \in [Users -> ReminderRows]

Remind == \E db_ok \in BOOLEAN : LogLeft /\ SendPaymentReminders(db_ok)

RemindNext == Remind \/ Unsubscribe \/ ExpireStep \/ NextDay

RemindSpec == RemindInit /\ [][RemindNext]_vars

TimesReminded(u) == Cardinality({i \in DOMAIN result.reminded : result.reminded[i] = u})

\* C21: a user is sent at most one renewal reminder per calendar day: a user
\* returned by the queries of several lead times is reminded once in the run,
\* and a later run on the same day sends that user nothing.
RemindedOncePerDay ==
    [][SendPaymentReminders(TRUE) =>
          \A u \in GetExpiringSubscriptions(reminder_days[1], TRUE)
                     \cap GetExpiringSubscriptions(reminder_days[2], TRUE) :
              /\ TimesReminded(u)' + CountLog(activity_log, u, "reminder_sent") <= 1
              /\ ~RemindedToday(activity_log, u) => TimesReminded(u)' = 1
              /\ RemindedToday(activity_log, u) => TimesReminded(u)' = 0]_vars

\* the reminder step has run while a user was within both lead times
RemindedInBothLeadTimes ==
    /\ result.op = "send_payment_reminders"
    /\ \E u \in Users : u \in GetExpiringSubscriptions(reminder_days[2], TRUE)

\* C22: in the reminder step every active user whose next_payment_date is
\* within a lead time and who has no reminder logged today is sent a reminder
\* and gets a reminder entry in the activity log.
DueUsersReminded ==
    [][SendPaymentReminders(TRUE) =>
          \A u \in GetExpiringSubscriptions(reminder_days[1], TRUE)
                     \cup GetExpiringSubscriptions(reminder_days[2], TRUE) :
              ~RemindedToday(activity_log, u) =>
                  /\ \E i \in DOMAIN result'.reminded : result'.reminded[i] = u
                  /\ RemindedToday(activity_log', u)]_vars

\* the reminder step has run and a user within the three-day lead time has no
\* reminder logged today
DueUserNotReminded ==
    /\ result.op = "send_payment_reminders"
    /\ \E u \in GetExpiringSubscriptions(reminder_days[1], TRUE) :
          ~RemindedToday(activity_log, u) /\ result.reminded = <<>>

\* ---- the Scheduler's automation task between start_automation and
\* stop_automation
LoopInit ==
    /\ InitProcess
    /\ airwallex = "service"
    /\ credentials_ok = TRUE
    /\ webhook_secret = FALSE
    /\ users \in [Users -> {Row("active", StartDay - 5, "stars"),
                            Row("active", StartDay + 1, "card")}]

Start == stopper = "idle" /\ WarningsLeft /\ StartAutomation
Stop == stopper = "idle" /\ StopAutomation
Stopped == StopReturns
Enter == LoopEnter
Wake == ClockLeft(DAY) /\ LoopWake
Run == \E db_ok \in BOOLEAN, raises \in BOOLEAN : LoopRun(db_ok, raises)
Retry == LoopBackOff

LoopNext == Start \/ Stop \/ Stopped \/ Enter \/ Wake \/ Run \/ Retry

LoopSpec == LoopInit /\ [][LoopNext]_vars

\* C23: the automation loop ends only through stop_automation: an exception
\* raised by a daily run is caught inside the loop (the task goes to its
\* back-off sleep), and from there, unless stopped, the task goes back to
\* waiting for the next scheduled run.
LoopEndsOnlyByStop ==
    [][/\ (automation_task' \in Finished /\ automation_task \notin Finished) =>
              (cancelling \/ ~is_running)
       /\ (loop_errors' > loop_errors) => automation_task' = "backoff"
       /\ (automation_task = "backoff" /\ automation_task' # "backoff" /\ ~cancelling) =>
              automation_task' = "sleeping"]_vars

\* after a daily run that raised, the next daily run is under way
RanAgainAfterError ==
    /\ loop_errors = 1
    /\ daily_runs = 2
    /\ automation_task = "running"
    /\ is_running

\* C24: once stop_automation has returned, the automation task is over and no
\* daily run begins or goes on until start_automation is called, wherever the
\* task stood when the stop arrived.
NotRunning == ~is_running /\ stopper = "idle"

StopIsClean ==
    [][/\ NotRunning' => automation_task' \in Finished \cup {"none"}
       /\ (NotRunning /\ NotRunning') =>
              /\ daily_runs' = daily_runs
              /\ users' = users
              /\ activity_log' = activity_log]_vars

\* stop_automation has returned after cancelling the task in the middle of a
\* daily run
StoppedDuringRun ==
    /\ NotRunning
    /\ cancelled_at = "running"
    /\ automation_task = "done"

\* C25: in the manual activation fallback a failed fetch of the user is
\* treated as no existing user: with the writes working, the call ends with
\* the user active and a new expiry date, and reports success.
FetchFailureTolerated ==
    [][\A u \in Users, m \in Methods, from_today \in BOOLEAN :
          ManualActivateSubscription(u, m, from_today, FALSE, TRUE) =>
              /\ result'.ok
              /\ users'[u].subscription_status = "active"
              /\ users'[u].next_payment_date = Today + ManualPeriodDays]_vars

\* the fallback reported a failure to create a user whose row is in the store
ActivationRefusedForStoredUser ==
    /\ result.op = "activate_subscription" /\ ~result.ok
    /\ result.error = "Failed to create user"
    /\ users[result.user_id].exists

\* ---- every operation that writes subscription_status
ExtendLeft(u) == users[u].next_payment_date < StartDay + MaxExtendDays

Renew ==
    \E u \in Users, m \in Methods, from_today \in BOOLEAN,
       fetch_ok \in BOOLEAN, write_ok \in BOOLEAN :
        LogLeft /\ ExtendLeft(u)
                /\ ManualActivateSubscription(u, m, from_today, fetch_ok, write_ok)
Extend ==
    \E u \in Users, fetch_ok \in BOOLEAN, write_ok \in BOOLEAN :
        ExtendLeft(u) /\ ExtendSubscription(u, ManualPeriodDays, fetch_ok, write_ok)
AdminExtend ==
    \E u \in Users, fetch_ok \in BOOLEAN, write_ok \in BOOLEAN :
        ExtendLeft(u) /\ AdminExtendSubscription(u, fetch_ok, write_ok)

StatusNext ==
    Whitelist \/ BulkWhitelist \/ Unwhitelist \/ Unsubscribe \/ Renew
    \/ Extend \/ AdminExtend \/ ExpireStep \/ NextDay

\* the rows a user can start from: none, whitelisted without a date, lapsed
StatusRows ==
    {NoRow, Row("whitelisted", NoDate, "whitelisted"), Row("active", StartDay - 5, "stars")}

StatusInit ==
    /\ InitProcess
    /\ airwallex = "service"
    /\ credentials_ok = TRUE
    /\ webhook_secret = FALSE
    /\ users \in [Users -> StatusRows]

StatusSpec == StatusInit /\ [][StatusNext]_vars

\* C26: in every reachable store state a user whose subscription_status is
\* active has a next_payment_date, whatever activations, extensions,
\* whitelistings, un-whitelistings, cancellations and expire steps came before.
ActiveHasDate ==
    \A u \in Users :
        (users[u].exists /\ users[u].subscription_status = "active")
            => users[u].next_payment_date # NoDate

\* a user whose row had lost its date to a bulk whitelisting is active again
\* after an admin extension
ReactivatedAfterBulkWhitelist ==
    /\ result.op = "admin_extend_subscription"
    /\ users[result.user_id].subscription_status = "active"
    /\ users[result.user_id].payment_method = "whitelisted"
    /\ users[result.user_id].next_payment_date = Today + ManualPeriodDays

\* a request that passes every check of handle_webhook up to the dispatch when
\* it is sent with the gateway's fresh signature
Dispatchable(req) ==
    /\ req.has_headers /\ Auth(req) = "good" /\ req.json_ok
    /\ req.event.id # NoEventId
    /\ req.event.id \notin processed_webhooks

\* C27: a payment-succeeded event whose metadata has no telegram_id, or one
\* that is not a number, causes no confirm_payment call, no invite and no
\* notification, and the receiver answers 200.
UnattributedPaymentDropped ==
    [][\A req \in Requests :
          (/\ Dispatchable(req)
           /\ req.event.name = "payment_intent.succeeded"
           /\ req.event.telegram_id \in {NoUser, BadTid}
           /\ HandleWebhook(req)) =>
              /\ Last(deliveries').status = 200
              /\ result' = result /\ inflight' = inflight
              /\ invites' = invites /\ user_subscriptions' = user_subscriptions]_vars

\* a signed delivery was answered 500 without reaching a handler, where
\* signatures are verified
SignedDeliveryFailed ==
    /\ webhook_secret /\ airwallex = "service"
    /\ \E i \in DOMAIN deliveries :
          /\ deliveries[i].auth = "good" /\ deliveries[i].id # NoEventId
          /\ deliveries[i].status = 500 /\ ~deliveries[i].ran

\* C28: a correctly signed event whose name the receiver does not handle is
\* answered 200, triggers no payment confirmation and no change to any
\* session, and its id is recorded as processed.
UnknownEventAcknowledged ==
    [][\A req \in Requests :
          (/\ Dispatchable(req)
           /\ req.event.name = "payment_link.paid"
           /\ HandleWebhook(req)) =>
              /\ Last(deliveries').status = 200
              /\ result' = result /\ inflight' = inflight
              /\ payment_sessions' = payment_sessions
              /\ req.event.id \in processed_webhooks']_vars

\* a signed delivery with an event id was answered 500 and its id is not in
\* the processed set
SignedDeliveryNotRecorded ==
    /\ webhook_secret /\ airwallex = "service"
    /\ \E i \in DOMAIN deliveries :
          /\ deliveries[i].auth = "good" /\ deliveries[i].status = 500
          /\ deliveries[i].id \in EventIds \ processed_webhooks

\* ---- confirmations of one payment that all begin before any of them ends
NoneCompleted ==
    \A sid \in DOMAIN payment_sessions : payment_sessions[sid].status # "completed"

PaidWebhook ==
    \E req \in Requests :
        /\ req.event.name = "payment_intent.succeeded"
        /\ NoneCompleted
        /\ DeliveriesLeft /\ RevenueLeft /\ InFlightLeft /\ HandleWebhook(req)
EarlyButton == NoneCompleted /\ PaidButton
EarlyCard == NoneCompleted /\ Card

RaceNext == PaidWebhook \/ EarlyButton \/ Resume \/ Create \/ EarlyCard \/ Pay

RaceSpec == HookInit /\ [][RaceNext]_vars

\* C29: when the confirm_payment calls for one card session run concurrently
\* (each began before any of them completed the session), the payment is
\* counted once in the revenue statistics and the user is invited once.
ConcurrentConfirmsCountOnce ==
    /\ revenue_stats.card.count <= Cardinality({sid \in DOMAIN payment_sessions :
                                                   payment_sessions[sid].status = "completed"})
    /\ \A u \in Users : invites[u] <= revenue_stats.card.count

\* both of two confirmations that were suspended together have committed
BothRacersCommitted ==
    /\ inflight = {}
    /\ revenue_stats.card.count = 2
    /\ \E sid \in DOMAIN payment_sessions : payment_sessions[sid].status = "completed"

\* C30: while a delivery of an event id is still being processed (suspended
\* inside its handler, its id not yet recorded), a second delivery of the same
\* id does not run the event handler again.
NoDispatchWhileInFlight ==
    [][\A f \in inflight :
          f.caller = "webhook" =>
              dispatched'[f.req.event.id] = dispatched[f.req.event.id]]_vars

\* a delivery that arrived while another delivery of its event id was
\* suspended was dispatched too
OverlappingDeliveryDispatched ==
    \E i \in DOMAIN deliveries :
        /\ deliveries[i].overlap /\ deliveries[i].ran
        /\ dispatched[deliveries[i].id] = 2

\* ------------------------------------------------------------------ C31
\* C31: when a webhook secret is configured, every request that reached an
\* event handler carried the gateway's own fresh signature, whether or not
\* the payment processor has a gateway client.
SecretMeansVerified ==
    webhook_secret =>
        \A i \in DOMAIN deliveries : deliveries[i].ran => deliveries[i].auth = "good"

\* a request with a wrong or stale signature was handled and acknowledged
\* although a secret is configured, the processor having no gateway client
UnverifiedRequestDispatched ==
    /\ webhook_secret
    /\ airwallex = "none"
    /\ \E i \in DOMAIN deliveries :
          /\ deliveries[i].ran
          /\ deliveries[i].auth = "bad"
          /\ deliveries[i].status = 200
          /\ dispatched[deliveries[i].id] >= 1

\* ---- the expire step beside renewals written by other writers of the store
OverdueRows ==
    {Row("active", StartDay - 5, "stars"), Row("active", StartDay + 1, "card"),
     Row("expired", NoDate, NoMethod)}

ExpireRaceInit ==
    /\ InitProcess
    /\ airwallex = "service"
    /\ credentials_ok = TRUE
    /\ webhook_secret = FALSE
    /\ users \in [Users -> OverdueRows]

Query == \E db_ok \in BOOLEAN : QueryExpired(db_ok)
Walk ==
    \E telegram \in [Users -> TelegramAnswers] :
        LogLeft /\ WalkExpired(telegram)

ExpireRaceNext == Query \/ Walk \/ Renew \/ NextDay
ExpireRaceSpec == ExpireRaceInit /\ [][ExpireRaceNext]_vars

SweptCreate ==
    \E u \in Users, p \in {"basic"} :
        /\ SessionId(u) \notin KnownSessionIds
        /\ Cardinality(KnownSessionIds) < MaxSwept
        /\ CreatePaymentSession(u, p)
SweptCard ==
    \E sid \in DOMAIN payment_sessions :
        /\ payment_sessions[sid].attempts = <<>>
        /\ LinksLeft
        /\ ProcessCardPayment(sid, "created")
SweepResume == \E reached \in BOOLEAN : CleanupResume(reached)

SweepRaceInit == Init /\ credentials_ok
SweepRaceNext == SweptCreate \/ SweptCard \/ CleanupBegin \/ SweepResume \/ Clock
SweepRaceSpec == SweepRaceInit /\ [][SweepRaceNext]_vars

\* ------------------------------------------------------------------ C34
\* C34: a sweep that was suspended in a link cancellation ends without error,
\* and every session it had marked expired is then in the history and no
\* longer in the session table, whatever was created meanwhile.
SweepSurvivesCreate ==
    [][(sweep # NoSweep /\ sweep' = NoSweep) =>
          /\ result'.op = "cleanup_expired_sessions" /\ result'.ok
          /\ \A sid \in sweep.marked :
                /\ sid \in DOMAIN payment_history'
                /\ sid \notin DOMAIN payment_sessions']_vars

\* the sweep ended in RuntimeError and a session it marked expired is still
\* in the session table, beside the session created meanwhile
SweepAbandoned ==
    /\ result.op = "cleanup_expired_sessions"
    /\ result.error = "RuntimeError"
    /\ sweep = NoSweep
    /\ \E sid \in DOMAIN payment_sessions :
          /\ payment_sessions[sid].status = "expired"
          /\ sid \notin DOMAIN payment_history
          /\ \E other \in DOMAIN payment_sessions :
                payment_sessions[other].created_at > payment_sessions[sid].expires_at

\* ------------------------------------------------------------------ C35
\* C35: an expire step leaves every user that is not active with a
\* next_payment_date before today as it was: the row is unchanged, the user is
\* not among those it evicts and notifies, and no subscription_expired entry
\* is logged for the user. Among the steps of the store only the expire step
\* returns under that name without moving the clock.
ExpireStepFrame ==
    [][(result'.op = "process_expired_subscriptions" /\ now' = now) =>
          \A u \in Users \ GetExpiredSubscriptions(TRUE) :
              /\ users'[u] = users[u]
              /\ u \notin result'.evicted
              /\ CountLog(activity_log', u, "subscription_expired") =
                     CountLog(activity_log, u, "subscription_expired")]_vars

\* an expire step has run on a table holding an overdue user beside a
\* whitelisted user
ExpireStepBesideWhitelisted ==
    /\ result.op = "process_expired_subscriptions"
    /\ \E u, v \in Users :
          /\ users[u].exists /\ users[u].subscription_status = "whitelisted"
          /\ v \in GetExpiredSubscriptions(TRUE)

\* ------------------------------------------------------------------ C36
\* C36: whichever plan was paid for, a successful manual activation that
\* extends from the current expiry sets next_payment_date to the stored date
\* plus that plan's days when the stored date is in the future, and to today
\* plus that plan's days otherwise.
ActivationExtendsByPlan ==
    [][\A u \in Users, m \in Methods, p \in PlanIds :
          (ManualActivateSubscription(u, m, FALSE, TRUE, TRUE) /\ result'.ok) =>
              users'[u].next_payment_date =
                  StackedExpiry(users[u], subscription_plans[p].days)]_vars

\* a user was activated for thirty days from a lapsed or missing date, which
\* is not the duration of the basic plan
ActivatedForThirtyDays ==
    /\ result.op = "activate_subscription" /\ result.ok
    /\ users[result.user_id].next_payment_date = Today + ManualPeriodDays
    /\ subscription_plans["basic"].days # ManualPeriodDays

\* ---- the receiver with its processed set at the cap
DedupInit ==
    /\ Constructed
    /\ processed_others \in {ProcessedCap - 1, ProcessedCap}
    /\ credentials_ok = TRUE
    /\ webhook_secret = FALSE
    /\ users = SampleUsers

DedupSpec == DedupInit /\ [][HookNext]_vars

ProcessedSize == Cardinality(processed_webhooks) + processed_others

\* ------------------------------------------------------------------ C37
\* C37: when recording an event id takes the processed set past its cap, the
\* set is cut to ProcessedKeep ids and the id just recorded is among them.
TrimKeepsLatest ==
    [][(Answered /\ Last(deliveries').ran /\ Last(deliveries').status = 200
                 /\ ProcessedSize + 1 > ProcessedCap
                 /\ Last(deliveries').id \notin processed_webhooks) =>
          /\ ProcessedSize' = ProcessedKeep
          /\ Last(deliveries').id \in processed_webhooks']_vars

\* the set was cut to ProcessedKeep ids and the id of the event just
\* acknowledged is not among them
LatestIdEvicted ==
    /\ ProcessedSize = ProcessedKeep
    /\ deliveries # <<>>
    /\ Last(deliveries).ran /\ Last(deliveries).status = 200
    /\ Last(deliveries).id \notin processed_webhooks

\* ---- the gateway client alone, under every run of network answers
CallCreateLink == \E net \in [1..max_retries -> NetworkOutcomes] : CreatePaymentLinkCall(net)
CallLinkStatus == \E net \in [1..max_retries -> NetworkOutcomes] : GetPaymentLinkStatusCall(net)

GatewayInit == Init /\ airwallex = "service"
GatewayNext == CallCreateLink \/ CallLinkStatus
GatewaySpec == GatewayInit /\ [][GatewayNext]_vars

\* ------------------------------------------------------------------ C38
\* C38: a gateway call sends at most max_retries requests, and when the first
\* request fails with a network error it sends a second one; when that one is
\* answered the call succeeds.
GatewayCallRetries ==
    (result.op \in {"create_payment_link", "get_payment_link_status"} /\ credentials_ok) =>
        /\ result.attempts <= max_retries
        /\ result.network[1] = "client_error" => result.attempts >= 2
        /\ (result.network[1] = "client_error" /\ result.network[2] = "ok") => result.ok

\* a status check gave up after one request that met a network error,
\* although the next request would have been answered
StatusCheckNotRetried ==
    /\ result.op = "get_payment_link_status"
    /\ credentials_ok
    /\ result.network[1] = "client_error" /\ result.network[2] = "ok"
    /\ result.attempts = 1
    /\ ~result.ok

\* ---- the plan configuration edited while a session is open
Reprice ==
    \E sid \in DOMAIN payment_sessions :
        /\ plan_objects = subscription_plans
        /\ EditPlan(payment_sessions[sid].plan_id, RepricedDays)

PlanNext == Create \/ Stars \/ Confirm \/ Reprice
PlanSpec == Init /\ [][PlanNext]_vars

\* ------------------------------------------------------------------ C39
\* C39: in a step that leaves the session table alone, the plan details of
\* every session stay what they were, an edit of the plan configuration
\* included.
PlanSnapshotKept ==
    [][payment_sessions' = payment_sessions =>
          \A sid \in DOMAIN payment_sessions :
              PlanDetails(payment_sessions[sid])' = PlanDetails(payment_sessions[sid])]_vars

\* a session created under the plan's configured duration was confirmed for
\* the duration the plan was given afterwards
ConfirmedWithEditedPlan ==
    /\ result.op = "confirm_payment" /\ result.ok
    /\ result.sid \in DOMAIN payment_sessions
    /\ subscription_plans[payment_sessions[result.sid].plan_id].days # RepricedDays
    /\ result.expires_at = now + RepricedDays * DAY

\* C40: at most one automation task exists at any time: a task is created only
\* when no earlier task is still alive, a start_automation call that finds the
\* automation running logs its warning and leaves the task and the flag as
\* they were, and every daily run begins at a check time later than the clock
\* of the run before it, so no check time has two runs.
OneAutomationTask ==
    [][/\ (automation_task' = "created" /\ automation_task # "created") =>
              automation_task \in Finished \cup {"none"}
       /\ (already_running' # already_running) =>
              /\ is_running /\ is_running'
              /\ automation_task' = automation_task
              /\ cancelling' = cancelling
              /\ daily_runs' = daily_runs
       /\ (daily_runs' # daily_runs) =>
              /\ daily_runs' = daily_runs + 1
              /\ now' > now
              /\ now' % DAY = check_time]_vars

\* a start_automation call was refused, and the one task has begun its second
\* daily run, a day after the first
StartRefusedTaskRanOn ==
    /\ already_running = 1
    /\ is_running
    /\ automation_task = "running"
    /\ daily_runs = 2
    /\ now = (StartDay + 1) * DAY + check_time

====
